---- MODULE Spec2Model ----
(***************************************************************************)
(* A model of the OpenSpace (Montreal) decoding pipeline of astrolabe:     *)
(*   - the LZO1X decompressor          (openspace/lzo.py)                  *)
(*   - the SNA container parser        (openspace/sna.py)                  *)
(*   - the pointer-resolving reader    (openspace/datareader.py)           *)
(* Each component has its own specification (SpecLzo, SpecSna,            *)
(* SpecReader) over the shared variables; the variables of the other       *)
(* components stay at their idle values.                                   *)
(***************************************************************************)
EXTENDS Integers, Sequences, FiniteSets, TLC

VARIABLES
    lzSrc,      \* decompress_lzo: compressed_data
    lzN,        \* decompress_lzo: decompressed_size
    lzPc,       \* position in decompress_lzo / LzoDecompressor.decompress
    lz,         \* the LzoDecompressor object (source cursor, ring buffer, ...)
    lzRet,      \* the value returned by decompress_lzo
    lzMark,     \* source cursor at the moment the end-of-stream marker was seen
    snRaw,      \* SNAReader.raw_data
    snPos,      \* SNAReader.pos
    snBlocks,   \* sna.blocks
    snParts,    \* decompressed_parts, joined
    snCurPos,   \* current_data_position
    snPc,       \* position in SNAReader.read
    snLast,     \* the loop iteration just executed (cursor before it, fields read)
    rdSna,      \* SNADataReader.sna.blocks
    rdRtb,      \* SNADataReader.rtb.pointer_blocks
    rdCur,      \* SNADataReader._current_block (index into rdSna, 0 = None)
    rdData,     \* SNADataReader._data
    rdPosition, \* SNADataReader._position
    rdBase,     \* SNADataReader.base_address
    rdPtr,      \* the Pointer returned by the last read_pointer
    rdLast,     \* the reader operation just executed and its outcome
    rtIn,       \* from_bytes: data, encrypted, compressed (and how data was made)
    rtReader,   \* the EncryptedReader of from_stream
    rtLists,    \* table.pointer_blocks
    rtCount,    \* iterations left of the loop of RelocationTable._read
    rtPc,       \* position in from_bytes / _read
    rtLast,     \* the iteration of _read just executed (stream position before, after)
    coQuery,    \* the query of each caller of the shared reader: block and offset
    coPc,       \* each caller's position in its query
    coRes,      \* what each caller's query returned
    ldFile,     \* load_level: the .rtb file next to the level (NoFile when there is none)
    ldPc,       \* position in load_level
    ldOut,      \* what load_level returned or raised
    ciReader,   \* an EncryptedReader and its XORMask
    ciCalls,    \* calls made on the reader and its mask so far
    ciLast,     \* the call just made: bytes given, bytes returned, the XORMask before it
    chSrc,      \* the compressed stream given to LzoDecompressor
    chN1,       \* output_size of the first call of decompress
    chN2,       \* output_size of the second call of decompress
    chPc,       \* how many calls were made on the decompressor
    ch,         \* the LzoDecompressor object shared by the two calls
    chOne,      \* the value returned by the first call
    chTwo       \* the value returned by the second call

lzVars == <<lzSrc, lzN, lzPc, lz, lzRet, lzMark>>
snVars == <<snRaw, snPos, snBlocks, snParts, snCurPos, snPc, snLast>>
rdVars == <<rdSna, rdRtb, rdCur, rdData, rdPosition, rdBase, rdPtr, rdLast>>
rtVars == <<rtIn, rtReader, rtLists, rtCount, rtPc, rtLast>>
coVars == <<coQuery, coPc, coRes>>
ldVars == <<ldFile, ldPc, ldOut>>
ciVars == <<ciReader, ciCalls, ciLast>>
chVars == <<chSrc, chN1, chN2, chPc, ch, chOne, chTwo>>
vars == <<lzVars, snVars, rdVars, rtVars, coVars, ldVars, ciVars, chVars>>

(***************************************************************************)
(* Bounds of the model.                                                    *)
(***************************************************************************)
MaxSrcLen == 5      \* longest compressed stream drawn in SpecLzo
MaxOutSize == 5     \* largest decompressed_size drawn in SpecLzo
MaxBufLen == 5      \* longest buffer of a literal-only stream in SpecLzo
MaxRest == 2        \* most bytes following the first byte in the first-byte streams
MaxTail == 1        \* most bytes following a literal-only stream's end marker
MaxRecs == 1        \* most data records of a container drawn in SpecSna
MaxLists == 2       \* most lists of a relocation table drawn in SpecRtb
MaxPointers == 2    \* most pointers of a list drawn in SpecRtb
MaxBack == 3        \* furthest before the payload that skip moves the cursor in SpecReader
MaxAhead == 18      \* furthest cursor that skip reaches in SpecReader
MaxCallers == 2     \* callers sharing one SNADataReader in SpecCallers
MaxCalls == 3       \* calls made on one EncryptedReader in SpecCipher
MaxFill == 24       \* bytes following an instruction and its operands in SpecDecode
MaxChunk == 8       \* largest output_size of one call of decompress in SpecChunks

(***************************************************************************)
(* Byte helpers.                                                           *)
(***************************************************************************)
Min(a, b) == IF a < b THEN a ELSE b

RECURSIVE Zeros(_)
Zeros(n) == IF n <= 0 THEN <<>> ELSE <<0>> \o Zeros(n - 1)

\* s[from : from+count] with Python's slice clamping (0-based, from >= 0)
Slice(s, from, count) ==
    LET lo == Min(from, Len(s))
        hi == Min(from + (IF count < 0 THEN 0 ELSE count), Len(s))
    IN  IF hi <= lo THEN <<>> ELSE SubSeq(s, lo + 1, hi)

RECURSIVE BitOr(_, _)
BitOr(a, b) ==
    IF a = 0 THEN b
    ELSE IF b = 0 THEN a
    ELSE (IF (a % 2 = 1) \/ (b % 2 = 1) THEN 1 ELSE 0) + 2 * BitOr(a \div 2, b \div 2)

(***************************************************************************)
(* openspace/lzo.py                                                        *)
(***************************************************************************)
ZERO_COPY == 0
LARGE_COPY == 4

\* (1 << 14) + ((255 & 8) << 11) + (255 << 6) + (255 >> 2)
MAX_WINDOW_SIZE == 16384 + (8 * 2048) + (255 * 64) + (255 \div 4)

\* RingBuffer._buffer[i]: the buffer starts as zeros; `ring` holds the bytes
\* written so far, in order (fewer than MAX_WINDOW_SIZE, so no slot is reused).
RingAt(ring, i) == IF i < Len(ring) THEN ring[i + 1] ELSE 0

\* LzoDecompressor.__init__ before _decode_first_byte.  Besides the object's
\* fields the record carries the locals of the running call: out (the bytes
\* written to `result`, pos = Len(out)), b (_read_byte's value), s, dist (the
\* locals s and d of _decode), len (the local length), read (_decode's value),
\* err (the exception raised), and two observations: beyond (a copy reached
\* further back than the bytes produced so far) and match (the distance, copy
\* and state arguments of the last call of _copy_from_ring_buffer).
NoMatch == [distance |-> 0, copy |-> 0, state |-> 0]

NewDecompressor(src) ==
    [src |-> src, sp |-> 0, ring |-> <<>>, state |-> ZERO_COPY, instruction |-> 0,
     buf |-> <<>>, output_position |-> 0, finished |-> FALSE,
     err |-> "none", b |-> 0, s |-> 0, dist |-> 0, len |-> 0, out |-> <<>>,
     read |-> 0, beyond |-> FALSE, match |-> NoMatch]

\* no exception so far: every step of a call is skipped once one is raised
Ok(d) == d.err = "none"

SetRead(d, n) == [d EXCEPT !.read = n]
SetState(d, state) == IF Ok(d) THEN [d EXCEPT !.state = state] ELSE d
SetStateRead(d, state, n) == IF Ok(d) THEN [d EXCEPT !.state = state, !.read = n] ELSE d
AddLen(d, n) == [d EXCEPT !.len = @ + n]
\* `self._decoded_buffer = bytearray(...)`
NewBuf(d) == [d EXCEPT !.buf = <<>>]

\* _read_byte: the byte read is left in d.b
ReadByte(d) ==
    IF ~Ok(d) THEN d
    ELSE IF d.sp >= Len(d.src) THEN [d EXCEPT !.err = "UnexpectedEnd"]
    ELSE [d EXCEPT !.sp = @ + 1, !.b = d.src[d.sp + 1]]

\* _read_length: the length is left in d.len
RECURSIVE ReadLengthFrom(_, _)
ReadLengthNext(d, length) ==
    IF ~Ok(d) THEN d
    ELSE IF d.b # 0 THEN [d EXCEPT !.len = length + d.b]
    ELSE ReadLengthFrom(d, length + 255)

ReadLengthFrom(d, length) == ReadLengthNext(ReadByte(d), length)

ReadLength(d) == ReadLengthFrom(d, 0)

\* _copy_from_source into the caller's output buffer
CopyFromSourceToOut(d, count) ==
    IF ~Ok(d) THEN d
    ELSE IF d.sp + count > Len(d.src)
         THEN [d EXCEPT !.err = "UnexpectedEnd", !.sp = Len(d.src)]
    ELSE [d EXCEPT !.sp = @ + count,
                   !.out = @ \o Slice(d.src, d.sp, count),
                   !.ring = @ \o Slice(d.src, d.sp, count)]

\* _copy_from_source into self._decoded_buffer
CopyFromSourceToBuf(d, count) ==
    IF ~Ok(d) THEN d
    ELSE IF d.sp + count > Len(d.src)
         THEN [d EXCEPT !.err = "UnexpectedEnd", !.sp = Len(d.src)]
    ELSE [d EXCEPT !.sp = @ + count,
                   !.buf = @ \o Slice(d.src, d.sp, count),
                   !.ring = @ \o Slice(d.src, d.sp, count)]

\* RingBuffer.copy, the body of its loop: the byte read is put in the
\* destination and written back at the write position
RingCopyByte(d, byte, toOut) ==
    IF toOut THEN [d EXCEPT !.out = Append(@, byte), !.ring = Append(@, byte)]
    ELSE [d EXCEPT !.buf = Append(@, byte), !.ring = Append(@, byte)]

\* a variant of RingCopy that reads the whole source range before it writes
RingCopy_Block(d, readPos, count, toOut) ==
    IF ~Ok(d) \/ count <= 0 THEN d
    ELSE [d EXCEPT
            !.ring = @ \o [k \in 1..count |->
                             RingAt(d.ring, (readPos + k - 1) % MAX_WINDOW_SIZE)],
            !.out = IF toOut
                    THEN @ \o [k \in 1..count |->
                                RingAt(d.ring, (readPos + k - 1) % MAX_WINDOW_SIZE)]
                    ELSE @,
            !.buf = IF toOut THEN @
                    ELSE @ \o [k \in 1..count |->
                                RingAt(d.ring, (readPos + k - 1) % MAX_WINDOW_SIZE)]]

\* RingBuffer.copy, one byte at a time: the loop `for _ in range(count)` is
\* the first half of its iterations followed by the rest, which keeps the
\* nesting of the evaluation logarithmic in count
RECURSIVE RingCopy(_, _, _, _)
RingCopy(d, readPos, count, toOut) ==
    IF ~Ok(d) \/ count <= 0 THEN d
    ELSE IF count = 1 THEN RingCopyByte(d, RingAt(d.ring, readPos), toOut)
    ELSE RingCopy(RingCopy(d, readPos, count \div 2, toOut),
                  (readPos + (count \div 2)) % MAX_WINDOW_SIZE,
                  count - (count \div 2), toOut)

\* RingBuffer.copy: `read_pos = (self._position - distance) % self._size`
ReadPos(position, distance) == (position - distance) % MAX_WINDOW_SIZE

\* _do_ring_copy
DoRingCopy(d, distance, count, toOut) ==
    RingCopy(d, ReadPos(Len(d.ring), distance), count, toOut)

TrailingToBuf(d, state) == IF state > 0 THEN CopyFromSourceToBuf(d, state) ELSE d
TrailingToOut(d, state) == IF state > 0 THEN CopyFromSourceToOut(d, state) ELSE d

\* _copy_from_ring_buffer, `if count <= copy`: the output ends inside the match
CopyCutInMatch(d, count, distance, copy, state) ==
    SetRead(TrailingToBuf(DoRingCopy(NewBuf(DoRingCopy(d, distance, count, TRUE)),
                                     distance, copy - count, FALSE),
                          state),
            count)

\* _copy_from_ring_buffer, the `else`: the output ends inside the trailing literals
CopyCutInLiterals(d, count, distance, copy, state) ==
    SetStateRead(CopyFromSourceToBuf(
                     CopyFromSourceToOut(NewBuf(DoRingCopy(d, distance, copy, TRUE)),
                                         count - copy),
                     state - (count - copy)),
                 state, count)

\* _copy_from_ring_buffer, `count >= result`: the whole instruction fits
CopyWhole(d, count, distance, copy, state) ==
    SetStateRead(TrailingToOut(DoRingCopy(d, distance, copy, TRUE), state),
                 state, copy + state)

Observe(d, distance, copy, state) ==
    [d EXCEPT !.beyond = @ \/ (distance > Len(d.ring)),
              !.match = [distance |-> distance, copy |-> copy, state |-> state]]

\* _copy_from_ring_buffer: the number of bytes put in the output is left in d.read
CopyFromRingBuffer(d, count, distance, copy, state) ==
    IF ~Ok(d) THEN d
    ELSE IF count < copy + state
    THEN IF count <= copy
         THEN CopyCutInMatch(Observe(d, distance, copy, state), count, distance, copy, state)
         ELSE CopyCutInLiterals(Observe(d, distance, copy, state), count, distance, copy, state)
    ELSE CopyWhole(Observe(d, distance, copy, state), count, distance, copy, state)

\* _small_copy, after `h = self._read_byte()`
SmallCopyAt(d, count) ==
    CopyFromRingBuffer(d, count, (d.b * 4) + ((d.instruction \div 4) % 4) + 1,
                       2, d.instruction % 4)

\* _small_copy
SmallCopy(d, count) == SmallCopyAt(ReadByte(d), count)

\* a variant of LargeCopyAt with the distance base of _small_copy
LargeCopyAt_Near(d, count) ==
    CopyFromRingBuffer(d, count, (d.b * 4) + ((d.instruction \div 4) % 4) + 1,
                       3, d.instruction % 4)

\* _large_copy, after `h = self._read_byte()`
LargeCopyAt(d, count) ==
    CopyFromRingBuffer(d, count, (d.b * 4) + ((d.instruction \div 4) % 4) + 2049,
                       3, d.instruction % 4)

\* _large_copy
LargeCopy(d, count) == LargeCopyAt(ReadByte(d), count)

\* _decode, state ZERO_COPY: the length of the literal run
LiteralLength(d) ==
    IF d.instruction # 0 THEN [d EXCEPT !.len = 3 + d.instruction]
    ELSE AddLen(ReadLength(d), 3 + 15)

\* _decode, state ZERO_COPY: the copy of the run, `if length > count`
LiteralRun(d, count) ==
    SetState(IF d.len > count
             THEN SetRead(CopyFromSourceToBuf(NewBuf(CopyFromSourceToOut(d, count)),
                                              d.len - count),
                          count)
             ELSE SetRead(CopyFromSourceToOut(d, d.len), d.len),
             LARGE_COPY)

\* _decode, the branch `self._instruction <= 15`, state ZERO_COPY
DecodeLiteralRun(d, count) == LiteralRun(LiteralLength(d), count)

\* _decode: `length = instruction & mask; if length == 0: length = mask +
\* self._read_length(); length += 2` (mask = modulus - 1)
MatchLength(d, modulus) ==
    IF d.instruction % modulus = 0 THEN AddLen(ReadLength(d), (modulus - 1) + 2)
    ELSE [d EXCEPT !.len = (d.instruction % modulus) + 2]

KeepS(d) == [d EXCEPT !.s = d.b]
\* a variant of SetDist that keeps the two low bits of s in the distance
SetDist_Unshifted(d) == [d EXCEPT !.dist = (d.b * 256) + d.s]
SetDist(d) == [d EXCEPT !.dist = ((d.b * 256) + d.s) \div 4]

\* _decode: `s = self._read_byte(); d = self._read_byte(); d = ((d << 8) | s) >> 2`
ReadDistance(d) == SetDist(ReadByte(KeepS(ReadByte(d))))

\* _decode, the branch `self._instruction < 32`: the distance of the match
\* (Python: 16384 + ((instruction & 0x8) << 11) | d, where + binds before |)
LongDistance(instruction, dd) ==
    BitOr(16384 + (((instruction \div 8) % 2) * 8 * 2048), dd)

\* _decode, `if distance == 16384: return -1`
IsEndOfStream(distance) == distance = 16384

\* _decode, the branch `self._instruction < 32`, after length and distance
LongMatch(d, count) ==
    IF ~Ok(d) THEN d
    ELSE IF IsEndOfStream(LongDistance(d.instruction, d.dist)) THEN SetRead(d, -1)
    ELSE CopyFromRingBuffer(d, count, LongDistance(d.instruction, d.dist),
                            d.len, d.s % 4)

\* _decode, the branch `self._instruction < 32`
DecodeLongMatch(d, count) == LongMatch(ReadDistance(MatchLength(d, 8)), count)

MediumMatch(d, count) == CopyFromRingBuffer(d, count, d.dist + 1, d.len, d.s % 4)

\* _decode, the branch `self._instruction < 64`
DecodeMediumMatch(d, count) == MediumMatch(ReadDistance(MatchLength(d, 32)), count)

\* _decode, the two last branches after `h = self._read_byte()`
ShortMatch(d, count, length) ==
    CopyFromRingBuffer(d, count, (d.b * 8) + ((d.instruction \div 4) % 8) + 1,
                       length, d.instruction % 4)

\* _decode, the branch `self._instruction < 128`
DecodeShortMatch34(d, count) ==
    ShortMatch(ReadByte(d), count, 3 + ((d.instruction \div 32) % 2))

\* _decode, the last branch (instruction >= 128)
DecodeShortMatch58(d, count) ==
    ShortMatch(ReadByte(d), count, 5 + ((d.instruction \div 32) % 4))

\* _decode up to the assignment of `read`
DecodeInstruction(d, count) ==
    IF d.instruction <= 15
    THEN IF d.state = ZERO_COPY THEN DecodeLiteralRun(d, count)
         ELSE IF d.state \in {1, 2, 3} THEN SmallCopy(d, count)
         ELSE LargeCopy(d, count)
    ELSE IF d.instruction < 32 THEN DecodeLongMatch(d, count)
    ELSE IF d.instruction < 64 THEN DecodeMediumMatch(d, count)
    ELSE IF d.instruction < 128 THEN DecodeShortMatch34(d, count)
    ELSE DecodeShortMatch58(d, count)

\* _decode: `self._instruction = self._read_byte(); self._output_position += read`
SetInstruction(d) ==
    IF ~Ok(d) THEN d
    ELSE [d EXCEPT !.instruction = d.b, !.output_position = @ + d.read]

ReadNextInstruction(d) ==
    IF ~Ok(d) \/ d.read < 0 THEN d ELSE SetInstruction(ReadByte(d))

\* _decode: d.read is the value returned (-1: end of stream)
Decode(d, count) == ReadNextInstruction(DecodeInstruction(d, count))

\* a variant of IsInvalidFirst that rejects 16 only
IsInvalidFirst_Only16(instruction) == 15 < instruction /\ instruction < 17

\* _decode_first_byte: `if 15 < self._instruction <= 17`
IsInvalidFirst(instruction) == 15 < instruction /\ instruction <= 17

\* _decode_first_byte: `self._instruction = self._read_byte()` after the run
FirstInstruction(d) == IF Ok(d) THEN [d EXCEPT !.instruction = d.b] ELSE d

\* a variant of NumLiterals that is one literal short
NumLiterals_OneShort(instruction) == instruction - 18

\* _decode_first_byte: `num_literals = self._instruction - 17`
NumLiterals(instruction) == instruction - 17

\* _decode_first_byte, `if self._instruction >= 18`
InitialRun(d) ==
    FirstInstruction(ReadByte(
        SetState(CopyFromSourceToBuf(d, NumLiterals(d.instruction)),
                 IF d.instruction <= 21 THEN NumLiterals(d.instruction)
                 ELSE LARGE_COPY)))

\* _decode_first_byte, after `self._instruction = self._read_byte()`
FirstByte(d) ==
    IF ~Ok(d) THEN d
    ELSE IF IsInvalidFirst(d.b) THEN [d EXCEPT !.instruction = d.b, !.err = "InvalidFirst"]
    ELSE IF d.b >= 18 THEN InitialRun([d EXCEPT !.instruction = d.b])
    ELSE [d EXCEPT !.instruction = d.b]

\* _decode_first_byte
DecodeFirstByte(d) == FirstByte(ReadByte(d))

\* LzoDecompressor.decompress, the `if self._decoded_buffer:` part of one iteration
Drain(d, output_size) ==
    [d EXCEPT !.out = @ \o SubSeq(d.buf, 1, Min(Len(d.buf), output_size - Len(d.out))),
              !.buf = SubSeq(d.buf, Min(Len(d.buf), output_size - Len(d.out)) + 1,
                             Len(d.buf))]

\* LzoDecompressor.decompress: `return bytes(result)`, result = bytearray(output_size)
\* of which the first pos bytes were written
Result(out, output_size) == out \o Zeros(output_size - Len(out))

\* a variant of AfterDecode that goes on after the end-of-stream marker
AfterDecode_GoesOn(d) == d

\* LzoDecompressor.decompress: `if read < 0: self._finished = True; break`
AfterDecode(d) == IF Ok(d) /\ d.read < 0 THEN [d EXCEPT !.finished = TRUE] ELSE d

\* LzoDecompressor.decompress, one iteration of the while loop
DecompressIteration(d, output_size) ==
    IF Len(d.buf) > 0 THEN Drain(d, output_size)
    ELSE AfterDecode(Decode(d, output_size - Len(d.out)))

\* LzoDecompressor.decompress, the loop condition
LoopCondition(d, output_size) == Len(d.out) < output_size /\ ~d.finished

\* LzoDecompressor.decompress (one call on decompressor d)
RECURSIVE DecompressLoop(_, _)
DecompressLoop(d, output_size) ==
    IF ~Ok(d) \/ ~LoopCondition(d, output_size) THEN d
    ELSE DecompressLoop(DecompressIteration(d, output_size), output_size)

\* decompress_lzo, the value returned or the exception: [err, data]
Returned(d, decompressed_size) ==
    IF ~Ok(d) THEN [err |-> d.err, data |-> <<>>]
    ELSE [err |-> "none", data |-> Result(d.out, decompressed_size)]

\* a variant of IsEmptyInput that never takes the early return
IsEmptyInput_Never(compressed_data) == FALSE

\* decompress_lzo: `if not compressed_data`
IsEmptyInput(compressed_data) == Len(compressed_data) = 0

\* decompress_lzo
decompress_lzo(compressed_data, decompressed_size) ==
    IF IsEmptyInput(compressed_data) THEN [err |-> "none", data |-> <<>>]
    ELSE IF decompressed_size = 0 THEN [err |-> "none", data |-> <<>>]
    ELSE Returned(DecompressLoop(DecodeFirstByte(NewDecompressor(compressed_data)),
                                 decompressed_size),
                  decompressed_size)

(***************************************************************************)
(* openspace/sna.py                                                        *)
(***************************************************************************)
\* int.from_bytes(bs, "little"); a slice shorter than the field decodes as it is
RECURSIVE FromBytesUnsigned(_)
FromBytesUnsigned(bs) ==
    IF Len(bs) = 0 THEN 0
    ELSE bs[1] + 256 * FromBytesUnsigned(Tail(bs))

\* int.from_bytes(bs, "little", signed=True)
RECURSIVE FromBytesSigned(_)
FromBytesSigned(bs) ==
    IF Len(bs) = 0 THEN 0
    ELSE IF Len(bs) = 1 THEN (IF bs[1] >= 128 THEN bs[1] - 256 ELSE bs[1])
    ELSE bs[1] + 256 * FromBytesSigned(Tail(bs))

\* _read_u8: raw_data[pos] raises IndexError past the end
ReadU8Fails(raw, pos) == pos >= Len(raw)
ReadU8(raw, pos) == raw[pos + 1]

\* _read_i32 and _read_u32 decode the slice raw_data[pos : pos + 4]
ReadI32(raw, pos) == FromBytesSigned(Slice(raw, pos, 4))
ReadU32(raw, pos) == FromBytesUnsigned(Slice(raw, pos, 4))

\* _read_bytes
ReadBytes(raw, pos, count) == Slice(raw, pos, count)

\* SNAReader.read: `block_data = compressed_data[:block_size]`
StoredData(compressed_data, block_size) == Slice(compressed_data, 0, block_size)

\* SNAReader.read: the payload of a record, once its header and
\* `compressed_data = self._read_bytes(compressed_size)` are read; the name
\* decompress that sna.py imports from .lzo is taken to be decompress_lzo
PayloadData(is_compressed, decompressed_size, compressed_data, block_size) ==
    IF is_compressed # 0 THEN decompress_lzo(compressed_data, decompressed_size)
    ELSE [err |-> "none", data |-> StoredData(compressed_data, block_size)]

Payload(is_compressed, compressed_size, decompressed_size, chunk, pos, result) ==
    [is_compressed |-> is_compressed, compressed_size |-> compressed_size,
     decompressed_size |-> decompressed_size, chunk |-> chunk, pos |-> pos,
     err |-> result.err, data |-> result.data]

\* SNAReader.read, `if block_size > 0`, after the five u32 of the header
PayloadOf(is_compressed, compressed_size, decompressed_size, raw, pos, block_size) ==
    Payload(is_compressed, compressed_size, decompressed_size,
            ReadBytes(raw, pos + 20, compressed_size), pos + 20 + compressed_size,
            PayloadData(is_compressed, decompressed_size,
                        ReadBytes(raw, pos + 20, compressed_size), block_size))

\* SNAReader.read, `if block_size > 0`: is_compressed, compressed_size,
\* compressed_checksum, decompressed_size, decompressed_checksum, the data
ReadPayload(raw, pos, block_size) ==
    PayloadOf(ReadU32(raw, pos), ReadU32(raw, pos + 4), ReadU32(raw, pos + 12),
              raw, pos, block_size)

\* SNAReader.read, the `else`: `block_data = b""`
NoPayload(pos) ==
    [is_compressed |-> 0, compressed_size |-> 0, decompressed_size |-> 0,
     chunk |-> <<>>, pos |-> pos, err |-> "none", data |-> <<>>]

\* a variant of HasPayload that reads a PayloadHeader after every record
HasPayload_Always(block_size) == block_size >= 0

\* SNAReader.read: `if block_size > 0`
HasPayload(block_size) == block_size > 0

\* SNAReader.read: `if base_in_memory == -1`
IsTerminatorBase(base_in_memory) == base_in_memory = -1

\* what one iteration did: its kind, the cursor before and after, the fields read
Record(kind, err, start, pos, module, block_id, base_in_memory, block_size, payload) ==
    [kind |-> kind, err |-> err, start |-> start, pos |-> pos, module |-> module,
     block_id |-> block_id, base_in_memory |-> base_in_memory,
     block_size |-> block_size, payload |-> payload]

DataRecord(start, module, block_id, base_in_memory, block_size, payload) ==
    Record(IF payload.err # "none" THEN "raise"
           ELSE IF ~HasPayload(block_size) THEN "empty"
           ELSE IF payload.is_compressed # 0 THEN "lzo"
           ELSE "stored",
           payload.err, start, payload.pos, module, block_id, base_in_memory,
           block_size, payload)

\* SNAReader.read: the metadata (unk2, unk3, max_pos_minus_9, block_size) and
\* the payload of a record that is no terminator
ReadData(raw, pos, block_size) ==
    IF HasPayload(block_size) THEN ReadPayload(raw, pos + 22, block_size)
    ELSE NoPayload(pos + 22)

\* SNAReader.read: one iteration of the while loop, from cursor pos
ReadRecord(raw, pos) ==
    IF ReadU8Fails(raw, pos) \/ ReadU8Fails(raw, pos + 1)
    THEN Record("raise", "IndexError", pos, pos, 0, 0, 0, 0, NoPayload(pos))
    ELSE IF IsTerminatorBase(ReadI32(raw, pos + 2))
    THEN Record("terminator", "none", pos, pos + 6, ReadU8(raw, pos),
                ReadU8(raw, pos + 1), -1, 0, NoPayload(pos + 6))
    ELSE DataRecord(pos, ReadU8(raw, pos), ReadU8(raw, pos + 1), ReadI32(raw, pos + 2),
                    ReadU32(raw, pos + 18),
                    ReadData(raw, pos, ReadU32(raw, pos + 18)))

\* a variant of BlockOf that records the position after the block's data
BlockOf_PositionAfter(r, data_position) ==
    [module |-> r.module, block_id |-> r.block_id, base_in_memory |-> r.base_in_memory,
     size |-> r.block_size, data |-> r.payload.data,
     data_position |-> data_position + Len(r.payload.data)]

\* SNAMemoryBlock(...) as appended by the iteration
BlockOf(r, data_position) ==
    [module |-> r.module, block_id |-> r.block_id, base_in_memory |-> r.base_in_memory,
     size |-> r.block_size, data |-> r.payload.data, data_position |-> data_position]

\* SNAMemoryBlock.is_terminator
is_terminator(block) == block.base_in_memory = -1

\* a variant of relocation_key that shifts the module by 4 bits
relocation_key_Shift4(block) == BitOr(block.module * 16, block.block_id)

\* SNAMemoryBlock.relocation_key: (module << 8) | block_id
relocation_key(block) == BitOr(block.module * 256, block.block_id)

(***************************************************************************)
(* openspace/datareader.py and openspace/relocation.py (lookups)           *)
(***************************************************************************)
\* SNAFile.get_block: the index of the first block with the key, 0 for None
RECURSIVE FirstWithKey(_, _, _)
FirstWithKey(blocks, key, i) ==
    IF i > Len(blocks) THEN 0
    ELSE IF relocation_key(blocks[i]) = key THEN i
    ELSE FirstWithKey(blocks, key, i + 1)

get_block(blocks, module, block_id) ==
    FirstWithKey(blocks, BitOr(module * 256, block_id), 1)

\* SNADataReader.__init__: self._blocks_by_key[key], filled in file order from
\* the blocks that are no terminator (a later block replaces an earlier one);
\* the index of the block, 0 when the key is absent
RECURSIVE LastDataWithKey(_, _, _)
LastDataWithKey(blocks, key, i) ==
    IF i = 0 THEN 0
    ELSE IF ~is_terminator(blocks[i]) /\ relocation_key(blocks[i]) = key THEN i
    ELSE LastDataWithKey(blocks, key, i - 1)

blocks_by_key(blocks, key) == LastDataWithKey(blocks, key, Len(blocks))

\* relocation.get_relocation_key: (module * 0x100) + block_id
get_relocation_key(module, block_id) == (module * 256) + block_id

\* RelocationTable.get_list_for_part: the index of the first list of the
\* source block, 0 for None
RECURSIVE FirstList(_, _, _, _)
FirstList(lists, module, block_id, i) ==
    IF i > Len(lists) THEN 0
    ELSE IF lists[i].module = module /\ lists[i].block_id = block_id THEN i
    ELSE FirstList(lists, module, block_id, i + 1)

get_list_for_part(lists, module, block_id) == FirstList(lists, module, block_id, 1)

\* Pointer(offset, block); from_block and from_position record where
\* read_pointer read it (the current block and the cursor before the read)
Pointer(offset, block, from_block, from_position) ==
    [offset |-> offset, block |-> block,
     from_block |-> from_block, from_position |-> from_position]

NoPointer == Pointer(0, 0, 0, 0)

\* Pointer.is_null
is_null(pointer) == pointer.offset = 0 /\ pointer.block = 0

\* SNADataReader._read_bytes: `if self._position + count > len(self._data)`
ReadBeyondEnd(position, count, data) == position + count > Len(data)

\* self._data[start:stop] as Python slices bytes: a negative index counts from
\* the end, and both ends are clamped to the data
SliceIndex(i, n) == IF i < 0 THEN (IF i + n < 0 THEN 0 ELSE i + n) ELSE Min(i, n)

PySlice(data, start, stop) ==
    SubSeq(data, SliceIndex(start, Len(data)) + 1, SliceIndex(stop, Len(data)))

\* SNADataReader._read_bytes: the exception raised, the bytes returned and
\* self._position after the call
read_bytes(position, count, data) ==
    IF ReadBeyondEnd(position, count, data)
    THEN [err |-> "EOFError", bytes |-> <<>>, position |-> position]
    ELSE [err |-> "none", bytes |-> PySlice(data, position, position + count),
          position |-> position + count]

\* the value of a read: the exception raised, the bytes decoded, the value
\* and self._position after the call
ReadValue(r, err, value) ==
    [err |-> IF r.err # "none" THEN r.err ELSE err, bytes |-> r.bytes,
     value |-> IF r.err # "none" \/ err # "none" THEN 0 ELSE value,
     position |-> r.position]

\* SNADataReader.read_u8: `self._read_bytes(1)[0]`
IndexFirst(r) ==
    IF Len(r.bytes) = 0 THEN ReadValue(r, "IndexError", 0)
    ELSE ReadValue(r, "none", r.bytes[1])

read_u8(position, data) == IndexFirst(read_bytes(position, 1, data))

\* struct.unpack(fmt, bs) of one field of `width` bytes: struct.error unless
\* bs has exactly that many bytes
Unpack(r, width, signed) ==
    IF Len(r.bytes) # width THEN ReadValue(r, "struct.error", 0)
    ELSE ReadValue(r, "none", IF signed THEN FromBytesSigned(r.bytes)
                                ELSE FromBytesUnsigned(r.bytes))

\* SNADataReader.read_i8
read_i8(position, data) == Unpack(read_bytes(position, 1, data), 1, TRUE)

\* SNADataReader.read_u16
read_u16(position, data) == Unpack(read_bytes(position, 2, data), 2, FALSE)

\* SNADataReader.read_u32
read_u32(position, data) == Unpack(read_bytes(position, 4, data), 4, FALSE)

\* bytes.rstrip(b"\x00")
RECURSIVE RStripZeros(_)
RStripZeros(bs) ==
    IF Len(bs) > 0 /\ bs[Len(bs)] = 0 THEN RStripZeros(SubSeq(bs, 1, Len(bs) - 1))
    ELSE bs

\* bytes.decode("latin-1"): byte b is the character of code point b
Latin1(bs) == [i \in 1..Len(bs) |-> [codepoint |-> bs[i]]]

\* SNADataReader.read_string
StringOf(r) == ReadValue(r, "none", Latin1(RStripZeros(r.bytes)))

read_string(position, length, data) == StringOf(read_bytes(position, length, data))

\* SNADataReader.read_pointer, after read_u32 returned raw_value
PointerOf(raw_value, current_block, position) ==
    IF raw_value = 0 THEN Pointer(0, 0, current_block, position)
    ELSE Pointer(raw_value, current_block, current_block, position)

\* a variant of InBlock without the upper end of the range
InBlock_NoUpperEnd(offset, data) == 0 <= offset

\* SNADataReader.goto_pointer: `if 0 <= offset < len(self._data)`
InBlock(offset, data) == 0 <= offset /\ offset < Len(data)

\* SNADataReader.goto_pointer: the reader's fields after the call and the
\* value returned
GotoPointer(blocks, pointer, cur, data, base, position) ==
    IF is_null(pointer)
    THEN [ok |-> FALSE, cur |-> cur, data |-> data, base |-> base, position |-> position]
    ELSE IF pointer.block # 0
    THEN LET b == blocks[pointer.block]
             offset == pointer.offset - b.base_in_memory
         IN  IF InBlock(offset, b.data)
             THEN [ok |-> TRUE, cur |-> pointer.block, data |-> b.data,
                   base |-> b.base_in_memory, position |-> offset]
             ELSE [ok |-> FALSE, cur |-> pointer.block, data |-> b.data,
                   base |-> b.base_in_memory, position |-> position]
    ELSE [ok |-> FALSE, cur |-> cur, data |-> data, base |-> base, position |-> position]

(***************************************************************************)
(* openspace/encryption.py                                                 *)
(***************************************************************************)
RECURSIVE BitXor(_, _)
BitXor(a, b) ==
    IF a = 0 THEN b
    ELSE IF b = 0 THEN a
    ELSE ((a + b) % 2) + 2 * BitXor(a \div 2, b \div 2)

\* the 32-bit mask is kept as its two 16-bit halves: mask = hi * 65536 + lo
\* struct.unpack("<I", mask_bytes)[0]
MaskOf(mask_bytes) ==
    [lo |-> mask_bytes[1] + (256 * mask_bytes[2]),
     hi |-> mask_bytes[3] + (256 * mask_bytes[4])]

\* XORMask.__init__
NewMask == [mask |-> [lo |-> 0, hi |-> 0], initialized |-> FALSE]

\* decode_byte: `self.mask & 0xFF`
LowByte(mask) == mask.lo % 256

\* a variant of Advance that keeps the bit shifted out at the top
Advance_Unmasked(mask) ==
    [lo |-> ((mask.lo * 2) % 65536) + (mask.hi \div 32768),
     hi |-> (mask.hi * 2) + (mask.lo \div 32768)]

\* decode_byte: `((self.mask << 1) | ((self.mask >> 31) & 1)) & 0xFFFFFFFF`
Advance(mask) ==
    [lo |-> ((mask.lo * 2) % 65536) + (mask.hi \div 32768),
     hi |-> ((mask.hi * 2) + (mask.lo \div 32768)) % 65536]

\* XORMask.decode_byte: the XORMask after the call
MaskAfterByte(x) == IF x.initialized THEN [x EXCEPT !.mask = Advance(@)] ELSE x

\* XORMask.decode_byte: the value returned
decode_byte(x, b) == IF x.initialized THEN BitXor(b, LowByte(x.mask)) ELSE b

\* XORMask.decode_bytes: the XORMask after the call
RECURSIVE MaskAfterBytes(_, _)
MaskAfterBytes(x, n) == IF n <= 0 THEN x ELSE MaskAfterBytes(MaskAfterByte(x), n - 1)

\* XORMask.decode_bytes: the value returned
RECURSIVE decode_bytes(_, _)
decode_bytes(x, data) ==
    IF ~x.initialized \/ Len(data) = 0 THEN data
    ELSE <<decode_byte(x, Head(data))>> \o decode_bytes(MaskAfterByte(x), Tail(data))

\* EncryptedReader.__init__ before `self.mask.init_from_stream(stream)`: the
\* stream with its position, the XORMask, and the locals of the running call:
\* data (the value of read), v (the value of read_byte / read_uint32), err
\* (the exception raised), short (a read returned fewer bytes than asked), h
\* and ptrs (the fields and the pointers that RelocationTable._read collects)
NewReader(stream, encrypted) ==
    [raw |-> stream, pos |-> 0, encrypted |-> encrypted, x |-> NewMask,
     data |-> <<>>, v |-> 0, err |-> "none", short |-> FALSE,
     h |-> <<>>, ptrs |-> <<>>]

\* XORMask.init_from_stream
init_from_stream(r) ==
    IF Len(r.raw) - r.pos < 4
    THEN [r EXCEPT !.err = "ValueError", !.pos = Len(r.raw)]
    ELSE [r EXCEPT !.pos = @ + 4,
                   !.x = [mask |-> MaskOf(Slice(r.raw, r.pos, 4)),
                          initialized |-> TRUE]]

\* EncryptedReader.__init__
EncryptedReader(stream, encrypted) ==
    IF encrypted THEN init_from_stream(NewReader(stream, encrypted))
    ELSE NewReader(stream, encrypted)

\* EncryptedReader.read with the count of bytes that the stream still has
ReadAvailable(r, size, n) ==
    [r EXCEPT !.data = IF r.encrypted THEN decode_bytes(r.x, Slice(r.raw, r.pos, n))
                       ELSE Slice(r.raw, r.pos, n),
              !.x = IF r.encrypted THEN MaskAfterBytes(r.x, n) ELSE r.x,
              !.pos = @ + n,
              !.short = @ \/ (n < size)]

\* EncryptedReader.read: the bytes read are left in r.data
read(r, size) ==
    IF r.err # "none" THEN r
    ELSE ReadAvailable(r, size, Min(size, Len(r.raw) - r.pos))

\* read_byte: `return data[0] if data else 0`
ByteOrZero(r) ==
    IF r.err # "none" THEN r
    ELSE [r EXCEPT !.v = IF Len(r.data) > 0 THEN r.data[1] ELSE 0]

\* EncryptedReader.read_byte: the value is left in r.v
read_byte(r) == ByteOrZero(read(r, 1))

\* read_uint32: struct.unpack("<I", ...) raises struct.error on fewer than 4 bytes
UnpackU32(r) ==
    IF r.err # "none" THEN r
    ELSE IF Len(r.data) # 4 THEN [r EXCEPT !.err = "struct.error"]
    ELSE [r EXCEPT !.v = FromBytesUnsigned(r.data)]

\* EncryptedReader.read_uint32: the value is left in r.v
read_uint32(r) == UnpackU32(read(r, 4))

(***************************************************************************)
(* openspace/relocation.py                                                 *)
(***************************************************************************)
\* the value just read becomes the next field collected in r.h
Keep(r) == IF r.err # "none" THEN r ELSE [r EXCEPT !.h = Append(@, r.v)]

\* _read_pointer_block: RelocationPointerInfo(offset_in_memory, module, block_id)
\* from the three fields read last, appended to the pointers
AppendInfo(r) ==
    IF r.err # "none" THEN r
    ELSE [r EXCEPT !.ptrs = Append(@, [offset_in_memory |-> r.h[Len(r.h) - 2],
                                        module |-> r.h[Len(r.h) - 1],
                                        block_id |-> r.h[Len(r.h)]]),
                   !.h = SubSeq(@, 1, Len(@) - 3)]

\* _read_pointer_block: one iteration
ReadInfo(r) == AppendInfo(Keep(read_byte(Keep(read_byte(Keep(read_uint32(r)))))))

\* RelocationTable._read_pointer_block
RECURSIVE read_pointer_block(_, _)
read_pointer_block(r, count) ==
    IF r.err # "none" \/ count <= 0 THEN r
    ELSE read_pointer_block(ReadInfo(r), count - 1)

\* _read: module, block_id and count of a RelocationPointerList
ReadListHeader(r) ==
    Keep(read_uint32(Keep(read_byte(Keep(read_byte([r EXCEPT !.h = <<>>, !.ptrs = <<>>]))))))

\* the fields of r.h
ListModule(r) == r.h[1]
ListBlockId(r) == r.h[2]
ListCount(r) == r.h[3]
IsCompressedField(r) == r.h[4]
CompressedSizeField(r) == r.h[5]
DecompressedSizeField(r) == r.h[7]

\* _read: the five fields of the compression header
ReadCompressionHeader(r) ==
    Keep(read_uint32(Keep(read_uint32(Keep(read_uint32(Keep(read_uint32(
        Keep(read_uint32(r))))))))))

\* _read: `compressed_data = reader.read(compressed_size)`
ReadCompressedData(r) == IF r.err # "none" THEN r ELSE read(r, CompressedSizeField(r))

\* _read: the pointers read from block_reader come back in the list of r
FromBlockReader(r, block_reader) ==
    [r EXCEPT !.ptrs = block_reader.ptrs, !.err = block_reader.err,
              !.short = @ \/ block_reader.short]

\* _read: `block_reader = EncryptedReader(BytesIO(...), encrypted=False)` over
\* the result of decompress_lzo, then _read_pointer_block(block_reader, block)
ReadDecompressed(r, result) ==
    IF result.err # "none" THEN [r EXCEPT !.err = result.err]
    ELSE FromBlockReader(r, read_pointer_block(EncryptedReader(result.data, FALSE),
                                               ListCount(r)))

\* _read: `if is_compressed != 0 ... else ...`, then _read_pointer_block
ReadCompressedBlock(r) ==
    IF r.err # "none" THEN r
    ELSE IF IsCompressedField(r) # 0
    THEN ReadDecompressed(r, decompress_lzo(r.data, DecompressedSizeField(r)))
    ELSE FromBlockReader(r, read_pointer_block(EncryptedReader(r.data, FALSE),
                                               ListCount(r)))

\* a variant of HasPointers that reads pointer data after every list header
HasPointers_Always(count) == count >= 0

\* _read: `if block.count > 0`
HasPointers(count) == count > 0

\* _read: the part of one iteration after the list header
ReadListBody(r, compressed) ==
    IF r.err # "none" THEN r
    ELSE IF ~HasPointers(ListCount(r)) THEN r
    ELSE IF compressed
    THEN ReadCompressedBlock(ReadCompressedData(ReadCompressionHeader(r)))
    ELSE read_pointer_block(r, ListCount(r))

\* _read: one iteration of `for _ in range(count)`
ReadList(r, compressed) == ReadListBody(ReadListHeader(r), compressed)

\* _read: the RelocationPointerList that the iteration appends
ListOf(r) ==
    [module |-> ListModule(r), block_id |-> ListBlockId(r), count |-> ListCount(r),
     pointers |-> r.ptrs]

\* _read: the loop over the lists; the value is [err, lists, short]
RECURSIVE ReadLists(_, _, _, _)
RECURSIVE ReadListsNext(_, _, _, _)
ReadLists(r, compressed, count, lists) ==
    IF r.err # "none" THEN [err |-> r.err, lists |-> <<>>, short |-> r.short]
    ELSE IF count <= 0 THEN [err |-> "none", lists |-> lists, short |-> r.short]
    ELSE ReadListsNext(ReadList(r, compressed), compressed, count, lists)

\* _read: `table.pointer_blocks.append(block)` and the next iteration
ReadListsNext(r, compressed, count, lists) ==
    IF r.err # "none" THEN [err |-> r.err, lists |-> <<>>, short |-> r.short]
    ELSE ReadLists(r, compressed, count - 1, Append(lists, ListOf(r)))

\* _read after `count = reader.read_byte()`
ReadTableFrom(r, compressed) == ReadLists(r, compressed, r.v, <<>>)

\* RelocationTable._read
ReadTable(r, compressed) == ReadTableFrom(read_byte(r), compressed)

\* RelocationTable.from_bytes / from_stream
from_bytes(data, encrypted, compressed) ==
    ReadTable(EncryptedReader(data, encrypted), compressed)

(***************************************************************************)
(* SpecLzo: one call of decompress_lzo(lzSrc, lzN), one action per early   *)
(* return, for the construction of the decompressor, and per iteration of  *)
(* the loop of LzoDecompressor.decompress.                                 *)
(***************************************************************************)
RECURSIVE SeqsOfLen(_, _)
SeqsOfLen(S, n) ==
    IF n = 0 THEN {<<>>}
    ELSE {Append(s, x) : s \in SeqsOfLen(S, n - 1), x \in S}

SeqsUpTo(S, n) == UNION {SeqsOfLen(S, k) : k \in 0..n}

\* instruction and data bytes of the general streams
LzBytes == {0, 1, 17, 18, 64}
\* data bytes of the literal-only streams
LzData == {0, 17, 65}

\* the literal-only stream of the format: an initial run of Len(buf) literals,
\* then the end-of-stream marker (instruction 0x11, distance 16384)
EncodeLiteral(buf) == <<17 + Len(buf)>> \o buf \o <<17, 0, 0>>

\* every first byte, followed by a short stream
LzFirstBytes == 0..255

LzStreams ==
    SeqsUpTo(LzBytes, MaxSrcLen)
    \cup {EncodeLiteral(buf) \o tail :
            buf \in (SeqsUpTo(LzData, MaxBufLen) \ {<<>>}),
            tail \in SeqsUpTo({0, 18}, MaxTail)}
    \cup {<<first>> \o rest :
            first \in LzFirstBytes, rest \in SeqsUpTo({0, 17}, MaxRest)}

Idle == "idle"

LzIdle ==
    /\ lzSrc = <<>> /\ lzN = 0 /\ lzPc = Idle
    /\ lz = NewDecompressor(<<>>) /\ lzRet = <<>> /\ lzMark = -1

LzFrame == UNCHANGED <<snVars, rdVars, rtVars, coVars, ldVars, ciVars, chVars>>

InitLzo ==
    /\ lzSrc \in LzStreams
    /\ lzN \in 0..MaxOutSize
    /\ lzPc = "call"
    /\ lz = NewDecompressor(lzSrc)
    /\ lzRet = <<>>
    /\ lzMark = -1

\* decompress_lzo: `if not compressed_data: return b""`
LzoEmptyInput ==
    /\ lzPc = "call" /\ IsEmptyInput(lzSrc)
    /\ lzPc' = "returned" /\ lzRet' = <<>>
    /\ UNCHANGED <<lzSrc, lzN, lz, lzMark>>
    /\ LzFrame

\* decompress_lzo: `if decompressed_size == 0: return b""`
LzoZeroSize ==
    /\ lzPc = "call" /\ ~IsEmptyInput(lzSrc) /\ lzN = 0
    /\ lzPc' = "returned" /\ lzRet' = <<>>
    /\ UNCHANGED <<lzSrc, lzN, lz, lzMark>>
    /\ LzFrame

\* decompress_lzo: `decompressor = LzoDecompressor(stream)`
LzoConstruct ==
    /\ lzPc = "call" /\ ~IsEmptyInput(lzSrc) /\ lzN # 0
    /\ lz' = DecodeFirstByte(NewDecompressor(lzSrc))
    /\ lzPc' = IF lz'.err # "none" THEN "raised" ELSE "loop"
    /\ UNCHANGED <<lzSrc, lzN, lzRet, lzMark>>
    /\ LzFrame

\* LzoDecompressor.decompress: one iteration of the while loop
LzoIterate ==
    /\ lzPc = "loop" /\ LoopCondition(lz, lzN)
    /\ lz' = DecompressIteration(lz, lzN)
    /\ lzPc' = IF lz'.err # "none" THEN "raised" ELSE "loop"
    /\ lzMark' = IF lz'.finished /\ ~lz.finished THEN lz'.sp ELSE lzMark
    /\ UNCHANGED <<lzSrc, lzN, lzRet>>
    /\ LzFrame

\* LzoDecompressor.decompress: the loop ends, `return bytes(result)`
LzoReturn ==
    /\ lzPc = "loop" /\ ~LoopCondition(lz, lzN)
    /\ lzRet' = Result(lz.out, lzN)
    /\ lzPc' = "returned"
    /\ UNCHANGED <<lzSrc, lzN, lz, lzMark>>
    /\ LzFrame

NextLzo ==
    \/ LzoEmptyInput
    \/ LzoZeroSize
    \/ LzoConstruct
    \/ LzoIterate
    \/ LzoReturn

(***************************************************************************)
(* SpecDecode: the same call and the same actions as SpecLzo, on streams   *)
(* made to bring every instruction byte before _decode in every state: an  *)
(* initial literal run that sets the state, the instruction, two operand   *)
(* bytes, and a tail.                                                      *)
(***************************************************************************)
\* an initial run of `state` literals (_decode_first_byte leaves that state);
\* no run for ZERO_COPY
DePrefix(state) ==
    IF state = ZERO_COPY THEN <<>>
    ELSE <<17 + state>> \o [i \in 1..state |-> 64 + i]

\* the tail: end-of-stream markers, read as literals, operands or instructions
DeFill(n) == [i \in 1..n |-> <<17, 0, 0>>[((i - 1) % 3) + 1]]

DeOperands == SeqsOfLen({0, 1, 255}, 2)

DeStream(state, instruction, operands, fill) ==
    DePrefix(state) \o <<instruction>> \o operands \o DeFill(fill)

\* every instruction byte up to 15 in every state, every other instruction
\* byte in state LARGE_COPY, and three literal runs with a long extension
DeStreams ==
    {<<>>}
    \cup {DeStream(state, instruction, operands, MaxFill) :
            state \in 0..4, instruction \in 0..15, operands \in DeOperands}
    \cup {DeStream(LARGE_COPY, instruction, operands, MaxFill) :
            instruction \in 16..255, operands \in DeOperands}
    \cup {DeStream(ZERO_COPY, 0, operands, 256 + MaxFill) :
            operands \in {<<0, 1>>, <<255, 0>>, <<1, 0>>}}

DeSizes == {0, 1, 5, 6, 8, 30}

InitDecode ==
    /\ lzSrc \in DeStreams
    /\ lzN \in DeSizes
    /\ lzPc = "call"
    /\ lz = NewDecompressor(lzSrc)
    /\ lzRet = <<>>
    /\ lzMark = -1

(***************************************************************************)
(* SpecSna: SNAReader(snRaw).read(), one action per kind of loop iteration *)
(* and one for the return.  The inputs are serialized containers, whole    *)
(* and cut short at every length.                                          *)
(***************************************************************************)
U8Bytes(x) == <<x>>
U32Bytes(x) == <<x % 256, (x \div 256) % 256, (x \div 65536) % 256, (x \div 16777216) % 256>>
I32Bytes(x) == IF x >= 0 THEN U32Bytes(x)
               ELSE LET y == x + 2147483647 + 1   \* x + 2^31, the low 31 bits
                    IN  <<y % 256, (y \div 256) % 256, (y \div 65536) % 256,
                          128 + ((y \div 16777216) % 128)>>

\* a serialized data record
RecordBytes(r) ==
    U8Bytes(r.module) \o U8Bytes(r.block_id) \o I32Bytes(r.base_in_memory)
    \o U32Bytes(0) \o U32Bytes(0) \o U32Bytes(0) \o U32Bytes(r.block_size)
    \o (IF r.block_size = 0 THEN <<>>
        ELSE U32Bytes(r.is_compressed) \o U32Bytes(Len(r.chunk)) \o U32Bytes(0)
             \o U32Bytes(r.decompressed_size) \o U32Bytes(0) \o r.chunk)

TerminatorBytes == U8Bytes(0) \o U8Bytes(0) \o I32Bytes(-1)

SnShape(bs, ic, ds, chunk) ==
    [module |-> 5, block_id |-> 2, base_in_memory |-> 4096, block_size |-> bs,
     is_compressed |-> ic, decompressed_size |-> ds, chunk |-> chunk]

\* (module, block_id) of the records drawn besides (5, 2)
SnKeys == {<<255, 255>>, <<1, 0>>, <<0, 1>>, <<0, 0>>}

SnShapes ==
    {SnShape(0, 0, 0, <<>>)}
    \cup {SnShape(bs, 0, ds, chunk) :
            bs \in 1..3, ds \in 1..2, chunk \in {<<1>>, <<1, 2>>}}
    \cup {SnShape(Len(buf), 1, ds, EncodeLiteral(buf)) :
            buf \in {<<65>>, <<65, 66>>}, ds \in 1..3}
    \cup {SnShape(8, 0, 8, <<1, 2, 3, 4, 5, 6, 7, 8>>)}
    \cup {[SnShape(0, 0, 0, <<>>) EXCEPT !.module = k[1], !.block_id = k[2]] :
            k \in SnKeys}

RECURSIVE Flatten(_)
Flatten(ss) == IF Len(ss) = 0 THEN <<>> ELSE Head(ss) \o Flatten(Tail(ss))

SnContainers(n) ==
    {Flatten([i \in 1..Len(rs) |-> RecordBytes(rs[i])]) \o term \o trail :
        rs \in SeqsUpTo(SnShapes, n),
        term \in {<<>>, TerminatorBytes},
        trail \in {<<>>, <<7>>, TerminatorBytes}}

\* containers of two records and the terminator
SnPairShapes ==
    {SnShape(0, 0, 0, <<>>), SnShape(2, 0, 2, <<1, 2>>), SnShape(1, 0, 2, <<1, 2>>),
     SnShape(2, 1, 2, EncodeLiteral(<<65, 66>>))}

SnPairs ==
    {RecordBytes(a) \o RecordBytes(b) \o TerminatorBytes :
        a \in SnPairShapes, b \in SnPairShapes}

SnInputs ==
    SnContainers(MaxRecs)
    \cup UNION {{Slice(w, 0, k) : k \in 0..Len(w)} : w \in SnContainers(1)}
    \cup SnPairs

\* no iteration executed yet
NoRecord == Record("none", "none", 0, 0, 0, 0, 0, 0, NoPayload(0))

SnIdle ==
    /\ snRaw = <<>> /\ snPos = 0 /\ snBlocks = <<>> /\ snParts = <<>>
    /\ snCurPos = 0 /\ snPc = Idle /\ snLast = NoRecord

InitSna ==
    /\ snRaw \in SnInputs
    /\ snPos = 0
    /\ snBlocks = <<>>
    /\ snParts = <<>>
    /\ snCurPos = 0
    /\ snPc = "loop"
    /\ snLast = NoRecord

SnaLoopCondition == snPos < Len(snRaw)

SnFrame == UNCHANGED <<lzVars, rdVars, rtVars, coVars, ldVars, ciVars, chVars>>

\* a variant of SnaAppend that leaves the cursor where the iteration began
SnaAppend_KeepsCursor(r) ==
    /\ snLast' = r
    /\ snPos' = snPos
    /\ snBlocks' = Append(snBlocks, BlockOf(r, snCurPos))
    /\ snParts' = snParts \o r.payload.data
    /\ snCurPos' = snCurPos + Len(r.payload.data)

\* `sna.blocks.append(SNAMemoryBlock(...))` and the cursor after the iteration
SnaAppend(r) ==
    /\ snLast' = r
    /\ snPos' = r.pos
    /\ snBlocks' = Append(snBlocks, BlockOf(r, snCurPos))
    /\ snParts' = snParts \o r.payload.data
    /\ snCurPos' = snCurPos + Len(r.payload.data)

\* a variant of AfterTerminator that stays in the loop
AfterTerminator_NoBreak == "loop"

\* SNAReader.read: the `break` that ends the iteration of a terminator
AfterTerminator == "break"

\* one iteration that reads a terminator record: append it and `break`
SnaReadTerminator ==
    /\ snPc = "loop" /\ SnaLoopCondition
    /\ ReadRecord(snRaw, snPos).kind = "terminator"
    /\ SnaAppend(ReadRecord(snRaw, snPos))
    /\ snPc' = AfterTerminator
    /\ UNCHANGED snRaw
    /\ SnFrame

\* one iteration that reads a record whose block_size is 0
SnaReadEmptyBlock ==
    /\ snPc = "loop" /\ SnaLoopCondition
    /\ ReadRecord(snRaw, snPos).kind = "empty"
    /\ SnaAppend(ReadRecord(snRaw, snPos))
    /\ UNCHANGED <<snRaw, snPc>>
    /\ SnFrame

\* one iteration that reads a record with a payload (stored or LZO)
SnaReadPayloadBlock ==
    /\ snPc = "loop" /\ SnaLoopCondition
    /\ ReadRecord(snRaw, snPos).kind \in {"stored", "lzo"}
    /\ SnaAppend(ReadRecord(snRaw, snPos))
    /\ UNCHANGED <<snRaw, snPc>>
    /\ SnFrame

\* one iteration that raises (IndexError of _read_u8, LZOError of decompress)
SnaRaise ==
    /\ snPc = "loop" /\ SnaLoopCondition
    /\ ReadRecord(snRaw, snPos).kind = "raise"
    /\ snLast' = ReadRecord(snRaw, snPos)
    /\ snPc' = "raised"
    /\ UNCHANGED <<snRaw, snPos, snBlocks, snParts, snCurPos>>
    /\ SnFrame

\* the loop is over: `sna.data = b"".join(decompressed_parts); return sna`
SnaReturn ==
    /\ snPc = "break" \/ (snPc = "loop" /\ ~SnaLoopCondition)
    /\ snPc' = "returned"
    /\ UNCHANGED <<snRaw, snPos, snBlocks, snParts, snCurPos, snLast>>
    /\ SnFrame

NextSna ==
    \/ SnaReadTerminator
    \/ SnaReadEmptyBlock
    \/ SnaReadPayloadBlock
    \/ SnaRaise
    \/ SnaReturn

(***************************************************************************)
(* SpecReader: an SNADataReader over a two-block container and a           *)
(* relocation table; one action per method call.                           *)
(***************************************************************************)
\* data with the little-endian u32 v stored at offset off
PutU32(data, off, v) ==
    [i \in 1..Len(data) |->
        IF i > off /\ i <= off + 4 THEN U32Bytes(v)[i - off] ELSE data[i]]

RdBlock(module, block_id, base, data) ==
    [module |-> module, block_id |-> block_id, base_in_memory |-> base,
     size |-> Len(data), data |-> data, data_position |-> 0]

\* blocks (0,0)@0x1000 and (0,1)@0x2000 of 16 bytes and the terminator; the
\* first holds the raw value at payload offset 4, the second a pointer to
\* its own offset 12 at payload offset 8
RdContainer(raw) ==
    << RdBlock(0, 0, 4096, PutU32(Zeros(16), 4, raw)),
       RdBlock(0, 1, 8192, PutU32(Zeros(16), 8, 8204)),
       [RdBlock(0, 0, -1, <<>>) EXCEPT !.data_position = 32] >>

RdRawValues == {0, 4104, 8192, 8200, 8208}

RdList(module, block_id, pointers) ==
    [module |-> module, block_id |-> block_id, count |-> Len(pointers),
     pointers |-> pointers]

RdEntry(offset_in_memory, module, block_id) ==
    [offset_in_memory |-> offset_in_memory, module |-> module, block_id |-> block_id]

RdTables ==
    { <<>>,
      << RdList(0, 0, << RdEntry(4100, 0, 1) >>) >>,
      << RdList(0, 0, << RdEntry(4100, 0, 0) >>) >>,
      << RdList(0, 0, << RdEntry(4100, 0, 1) >>),
         RdList(0, 1, << RdEntry(8200, 0, 1) >>) >> }

RdOffsets == {-8, -3, 0, 4, 8, 12, 14, 16}

RdCounts == {-2}

RdLengths == {3}

RdFrame == UNCHANGED <<lzVars, snVars, rtVars, coVars, ldVars, ciVars, chVars>>

RdIdle ==
    /\ rdSna = <<>> /\ rdRtb = <<>> /\ rdCur = 0 /\ rdData = <<>>
    /\ rdPosition = 0 /\ rdBase = 0 /\ rdPtr = NoPointer
    /\ rdLast = [op |-> Idle, ok |-> TRUE]

\* SNADataReader.__init__
InitReader ==
    /\ rdSna \in {RdContainer(raw) : raw \in RdRawValues}
    /\ rdRtb \in RdTables
    /\ rdCur = 0
    /\ rdPosition = 0
    /\ rdData = <<>>
    /\ rdBase = 0
    /\ rdPtr = NoPointer
    /\ rdLast = [op |-> "init", ok |-> TRUE]

\* SNADataReader.set_block: the reader's fields after the call
set_block(module, block_id) ==
    /\ IF blocks_by_key(rdSna, BitOr(module * 256, block_id)) = 0
       THEN /\ rdLast' = [op |-> "set_block", ok |-> FALSE]
            /\ UNCHANGED <<rdCur, rdData, rdPosition, rdBase>>
       ELSE /\ rdCur' = blocks_by_key(rdSna, BitOr(module * 256, block_id))
            /\ rdData' = rdSna[rdCur'].data
            /\ rdPosition' = 0
            /\ rdBase' = rdSna[rdCur'].base_in_memory
            /\ rdLast' = [op |-> "set_block", ok |-> TRUE]
    /\ UNCHANGED <<rdSna, rdRtb, rdPtr>>

\* SNADataReader.set_block
RdSetBlock(module, block_id) == set_block(module, block_id) /\ RdFrame

\* SNADataReader.seek: the reader's fields after the call
seek(offset) ==
    /\ rdPosition' = offset
    /\ rdLast' = [op |-> "seek", ok |-> TRUE]
    /\ UNCHANGED <<rdSna, rdRtb, rdCur, rdData, rdBase, rdPtr>>

\* SNADataReader.seek
RdSeek(offset) == seek(offset) /\ RdFrame

\* SNADataReader.skip
RdSkip(count) ==
    /\ -MaxBack <= rdPosition + count
    /\ rdPosition + count <= MaxAhead
    /\ rdPosition' = rdPosition + count
    /\ rdLast' = [op |-> "skip", ok |-> TRUE]
    /\ UNCHANGED <<rdSna, rdRtb, rdCur, rdData, rdBase, rdPtr>>
    /\ RdFrame

\* a scalar read whose outcome is v: the reader's fields after the call; the
\* cursor before the call, the number of bytes asked for and the outcome are
\* kept in rdLast
ReadReturns(op, width, v) ==
    /\ rdPosition' = v.position
    /\ rdLast' = [op |-> op, ok |-> v.err = "none", err |-> v.err,
                  from |-> rdPosition, width |-> width,
                  bytes |-> v.bytes, value |-> v.value]
    /\ UNCHANGED <<rdSna, rdRtb, rdCur, rdData, rdBase, rdPtr>>

RdRead(op, width, v) == ReadReturns(op, width, v) /\ RdFrame

\* SNADataReader.read_u8
RdReadU8 == RdRead("read_u8", 1, read_u8(rdPosition, rdData))

\* SNADataReader.read_i8
RdReadI8 == RdRead("read_i8", 1, read_i8(rdPosition, rdData))

\* SNADataReader.read_u16
RdReadU16 == RdRead("read_u16", 2, read_u16(rdPosition, rdData))

\* SNADataReader.read_u32
RdReadU32 == RdRead("read_u32", 4, read_u32(rdPosition, rdData))

\* SNADataReader.read_string
RdReadString(length) ==
    RdRead("read_string", length, read_string(rdPosition, length, rdData))

\* SNADataReader.read_pointer after `raw_value = self.read_u32()` gave v
RdPointer(v) ==
    /\ rdPosition' = v.position
    /\ rdPtr' = IF v.err = "none" THEN PointerOf(v.value, rdCur, rdPosition) ELSE rdPtr
    /\ rdLast' = [op |-> "read_pointer", ok |-> v.err = "none"]
    /\ UNCHANGED <<rdSna, rdRtb, rdCur, rdData, rdBase>>
    /\ RdFrame

\* SNADataReader.read_pointer
RdReadPointer == RdPointer(read_u32(rdPosition, rdData))

\* the reader's fields after goto_pointer
RdGoto(g) ==
    /\ rdCur' = g.cur
    /\ rdData' = g.data
    /\ rdBase' = g.base
    /\ rdPosition' = g.position
    /\ rdLast' = [op |-> "goto_pointer", ok |-> g.ok]

\* SNADataReader.goto_pointer, called with the pointer read last
RdGotoPointer ==
    /\ rdPtr.from_block # 0
    /\ RdGoto(GotoPointer(rdSna, rdPtr, rdCur, rdData, rdBase, rdPosition))
    /\ UNCHANGED <<rdSna, rdRtb, rdPtr>>
    /\ RdFrame

NextReader ==
    \/ \E module \in {0}, block_id \in {0, 1, 2} : RdSetBlock(module, block_id)
    \/ \E offset \in RdOffsets : RdSeek(offset)
    \/ \E count \in RdCounts : RdSkip(count)
    \/ RdReadU8
    \/ RdReadI8
    \/ RdReadU16
    \/ RdReadU32
    \/ \E length \in RdLengths : RdReadString(length)
    \/ RdReadPointer
    \/ RdGotoPointer

(***************************************************************************)
(* SpecCallers: MaxCallers callers share one SNADataReader.  Each runs the  *)
(* query set_block(0, block_id); seek(offset); read_u32(), one action per   *)
(* method call, and the calls of different callers interleave freely.      *)
(***************************************************************************)
Callers == 1..MaxCallers

CoQueries == [block_id : {0, 1}, offset : {4, 8}]

NoResult == [selected |-> FALSE, err |-> "none", value |-> 0]

CoFrame == UNCHANGED <<lzVars, snVars, rtVars, ldVars, ciVars, chVars>>

CoIdle ==
    /\ coQuery = <<>>
    /\ coPc = <<>>
    /\ coRes = <<>>

\* SNADataReader.__init__, and the callers about to start
InitCallers ==
    /\ InitReader
    /\ coQuery \in [Callers -> CoQueries]
    /\ coPc = [c \in Callers |-> "set_block"]
    /\ coRes = [c \in Callers |-> NoResult]

\* caller c calls set_block(0, block_id) and keeps what it returned
CoSetBlock(c) ==
    /\ coPc[c] = "set_block"
    /\ set_block(0, coQuery[c].block_id)
    /\ coPc' = [coPc EXCEPT ![c] = "seek"]
    /\ coRes' = [coRes EXCEPT ![c].selected = rdLast'.ok]
    /\ UNCHANGED coQuery
    /\ CoFrame

\* caller c calls seek(offset)
CoSeek(c) ==
    /\ coPc[c] = "seek"
    /\ seek(coQuery[c].offset)
    /\ coPc' = [coPc EXCEPT ![c] = "read_u32"]
    /\ UNCHANGED <<coQuery, coRes>>
    /\ CoFrame

\* caller c calls read_u32() and keeps the value or the exception
CoReadU32(c) ==
    /\ coPc[c] = "read_u32"
    /\ ReadReturns("read_u32", 4, read_u32(rdPosition, rdData))
    /\ coPc' = [coPc EXCEPT ![c] = "done"]
    /\ coRes' = [coRes EXCEPT ![c].err = rdLast'.err, ![c].value = rdLast'.value]
    /\ UNCHANGED coQuery
    /\ CoFrame

NextCallers ==
    \/ \E c \in Callers : CoSetBlock(c)
    \/ \E c \in Callers : CoSeek(c)
    \/ \E c \in Callers : CoReadU32(c)

\* what the query q returns when no other call comes between its three calls
Alone(blocks, q) ==
    [selected |-> blocks_by_key(blocks, BitOr(0, q.block_id)) # 0,
     err |-> read_u32(q.offset, blocks[blocks_by_key(blocks, BitOr(0, q.block_id))].data).err,
     value |-> read_u32(q.offset, blocks[blocks_by_key(blocks, BitOr(0, q.block_id))].data).value]

(***************************************************************************)
(* SpecRtb: one call of RelocationTable.from_bytes(raw, encrypted,         *)
(* compressed), one action for the construction of the reader, one for the *)
(* list count, and one per iteration of the loop of _read.                 *)
(***************************************************************************)
\* pointer k of a list.  The bytes of a stream of 8-byte pointers stay below
\* 128, so that every u32 that a reading in 6-byte steps makes of them is
\* below 2^31 (the integers of the model are 32-bit signed).
RtInfo(k, width) ==
    [offset_in_memory |-> 4096 + (4 * k), module |-> k,
     block_id |-> IF width = 6 THEN 256 - k ELSE 100 - k]

\* the list of n pointers
RtList(n, width) ==
    [module |-> 2 + n, block_id |-> 7, count |-> n,
     pointers |-> [k \in 1..n |-> RtInfo(k, width)]]

\* the bytes of a pointer in a stream whose pointers are `width` bytes wide
InfoBytes(info, width) ==
    U32Bytes(info.offset_in_memory) \o U8Bytes(info.module) \o U8Bytes(info.block_id)
    \o SubSeq(<<42, 43>>, 1, width - 6)

PointerBytes(list, width) ==
    Flatten([k \in 1..Len(list.pointers) |-> InfoBytes(list.pointers[k], width)])

\* the header of an inner block of pointer data
CompressionHeaderBytes(is_compressed, compressed_data, decompressed_size) ==
    U32Bytes(is_compressed) \o U32Bytes(Len(compressed_data)) \o U32Bytes(0)
    \o U32Bytes(decompressed_size) \o U32Bytes(0) \o compressed_data

\* the bytes of a list: its pointers follow the header as they are ("plain"),
\* in a stored inner block ("stored") or in an LZO inner block ("lzo")
ListBytes(list, mode, width) ==
    U8Bytes(list.module) \o U8Bytes(list.block_id) \o U32Bytes(list.count)
    \o (IF list.count = 0 THEN <<>>
        ELSE IF mode = "plain" THEN PointerBytes(list, width)
        ELSE IF mode = "stored"
        THEN CompressionHeaderBytes(0, PointerBytes(list, width),
                                    Len(PointerBytes(list, width)))
        ELSE CompressionHeaderBytes(1, EncodeLiteral(PointerBytes(list, width)),
                                    Len(PointerBytes(list, width))))

TableBytes(lists, mode, width) ==
    U8Bytes(Len(lists)) \o Flatten([i \in 1..Len(lists) |-> ListBytes(lists[i], mode, width)])

\* the first four bytes of an encrypted stream
RtMaskBytes == <<129, 0, 0, 128>>

\* the stream of a table: the four mask bytes and the masked bytes if encrypted
Encrypt(plain, encrypted) ==
    IF encrypted
    THEN RtMaskBytes \o decode_bytes([mask |-> MaskOf(RtMaskBytes), initialized |-> TRUE],
                                     plain)
    ELSE plain

\* an input of from_bytes: the stream, the two flags, and how it was made (the
\* lists, the width of its pointers, and whether the stream is whole)
RtInput(lists, mode, width, encrypted, cut) ==
    [raw |-> Slice(Encrypt(TableBytes(lists, mode, width), encrypted), 0,
                   Len(Encrypt(TableBytes(lists, mode, width), encrypted)) - cut),
     encrypted |-> encrypted, compressed |-> (mode # "plain"), mode |-> mode,
     width |-> width, lists |-> lists, whole |-> (cut = 0)]

RtLists(width) == {RtList(n, width) : n \in 0..MaxPointers}
RtModes == {"plain", "stored", "lzo"}
RtWidths == {6, 8}

\* the whole streams of up to MaxLists lists, and every prefix of the streams
\* of up to one list
RtWhole(width) ==
    {RtInput(lists, mode, width, encrypted, 0) :
        lists \in SeqsUpTo(RtLists(width), MaxLists), mode \in RtModes,
        encrypted \in BOOLEAN}

RtPrefixes(lists, width) ==
    UNION {{RtInput(lists, mode, width, encrypted, cut) :
                cut \in 1..Len(Encrypt(TableBytes(lists, mode, width), encrypted))} :
            mode \in RtModes, encrypted \in BOOLEAN}

RtInputs ==
    UNION {RtWhole(width) : width \in RtWidths}
    \cup UNION {UNION {RtPrefixes(lists, width) : lists \in SeqsUpTo(RtLists(width), 1)} :
                width \in RtWidths}

\* no iteration executed yet
NoList == [start |-> 0, end |-> 0, count |-> 0, done |-> FALSE]

RtIdle ==
    /\ rtIn = RtInput(<<>>, "plain", 6, FALSE, 0)
    /\ rtReader = NewReader(<<>>, FALSE)
    /\ rtLists = <<>> /\ rtCount = 0 /\ rtPc = Idle /\ rtLast = NoList

RtFrame == UNCHANGED <<lzVars, snVars, rdVars, coVars, ldVars, ciVars, chVars>>

InitRtb ==
    /\ rtIn \in RtInputs
    /\ rtReader = NewReader(rtIn.raw, rtIn.encrypted)
    /\ rtLists = <<>>
    /\ rtCount = 0
    /\ rtPc = "call"
    /\ rtLast = NoList

\* from_stream: `reader = EncryptedReader(stream, encrypted=encrypted)`
RtbConstruct ==
    /\ rtPc = "call"
    /\ rtReader' = EncryptedReader(rtIn.raw, rtIn.encrypted)
    /\ rtPc' = IF rtReader'.err # "none" THEN "raised" ELSE "count"
    /\ UNCHANGED <<rtIn, rtLists, rtCount, rtLast>>
    /\ RtFrame

\* _read: `count = reader.read_byte()`
RtbReadCount ==
    /\ rtPc = "count"
    /\ rtReader' = read_byte(rtReader)
    /\ rtCount' = rtReader'.v
    /\ rtPc' = "loop"
    /\ UNCHANGED <<rtIn, rtLists, rtLast>>
    /\ RtFrame

\* _read: the end of an iteration that read the list in r
RtbAppend(r) ==
    /\ r.err = "none"
    /\ rtReader' = r
    /\ rtLists' = Append(rtLists, ListOf(r))
    /\ rtCount' = rtCount - 1
    /\ rtLast' = [start |-> rtReader.pos, end |-> r.pos, count |-> ListCount(r),
                  done |-> TRUE]

\* _read: one iteration of the loop over the lists
RtbReadList ==
    /\ rtPc = "loop" /\ rtCount > 0
    /\ RtbAppend(ReadList(rtReader, rtIn.compressed))
    /\ UNCHANGED <<rtIn, rtPc>>
    /\ RtFrame

\* _read: the iteration in which r raised
RtbFail(r) ==
    /\ r.err # "none"
    /\ rtReader' = r
    /\ rtPc' = "raised"

\* _read: one iteration that raises (struct.error of read_uint32, LZOError)
RtbRaise ==
    /\ rtPc = "loop" /\ rtCount > 0
    /\ RtbFail(ReadList(rtReader, rtIn.compressed))
    /\ UNCHANGED <<rtIn, rtLists, rtCount, rtLast>>
    /\ RtFrame

\* _read: `return table`
RtbReturn ==
    /\ rtPc = "loop" /\ rtCount = 0
    /\ rtPc' = "returned"
    /\ UNCHANGED <<rtIn, rtReader, rtLists, rtCount, rtLast>>
    /\ RtFrame

NextRtb ==
    \/ RtbConstruct
    \/ RtbReadCount
    \/ RtbReadList
    \/ RtbRaise
    \/ RtbReturn

(***************************************************************************)
(* SpecLoad: one call of load_level.  read_sna_file runs as the iterations *)
(* of SNAReader.read, RelocationTable.from_file as the steps of _read, and *)
(* load_level has one action for each of its own steps.                    *)
(***************************************************************************)
NoFile == [exists |-> FALSE, input |-> RtInput(<<>>, "plain", 6, FALSE, 0)]

\* the .sna files: an empty block and a terminator, an LZO block and a
\* terminator, a stored block, a terminator alone, and a lone byte
LdSnaFiles ==
    { RecordBytes(SnShape(0, 0, 0, <<>>)) \o TerminatorBytes,
      RecordBytes(SnShape(1, 1, 1, EncodeLiteral(<<65>>))) \o TerminatorBytes,
      RecordBytes(SnShape(1, 0, 1, <<1>>)),
      TerminatorBytes,
      <<5>> }

\* the .rtb files: from_file reads them with encrypted=True, compressed=True
LdRtbFiles ==
    {NoFile} \cup {[exists |-> TRUE, input |-> i] :
                      i \in {j \in RtInputs : j.encrypted /\ j.compressed}}

NoOutcome == [err |-> "none", blocks |-> <<>>, loaded |-> FALSE,
              pointer_blocks |-> <<>>, warning |-> FALSE]

LdFrame == UNCHANGED <<lzVars, rdVars, coVars, ciVars, chVars>>

LdIdle == ldFile = NoFile /\ ldPc = Idle /\ ldOut = NoOutcome

\* load_level called: read_sna_file is about to loop over the records
InitLoad ==
    /\ InitSna
    /\ snRaw \in LdSnaFiles
    /\ RtIdle
    /\ ldFile \in LdRtbFiles
    /\ ldPc = "read_sna_file"
    /\ ldOut = NoOutcome

\* `sna = read_sna_file(level_path)` raised: load_level raises the same
LdRaise ==
    /\ ldPc = "read_sna_file" /\ snPc = "raised"
    /\ ldPc' = "raised"
    /\ ldOut' = [NoOutcome EXCEPT !.err = snLast.err]
    /\ UNCHANGED <<ldFile, snVars, rtVars>>
    /\ LdFrame

\* `if rtb_path.exists()` is false: `return sna, rtb` with rtb = None
LdReturnWithoutRtb ==
    /\ ldPc = "read_sna_file" /\ snPc = "returned"
    /\ ~ldFile.exists
    /\ ldPc' = "returned"
    /\ ldOut' = [NoOutcome EXCEPT !.blocks = snBlocks]
    /\ UNCHANGED <<ldFile, snVars, rtVars>>
    /\ LdFrame

\* `rtb = RelocationTable.from_file(str(rtb_path))` is called
LdFromFile ==
    /\ ldPc = "read_sna_file" /\ snPc = "returned"
    /\ ldFile.exists
    /\ rtIn' = ldFile.input
    /\ rtReader' = NewReader(ldFile.input.raw, ldFile.input.encrypted)
    /\ rtPc' = "call"
    /\ ldPc' = "from_file"
    /\ UNCHANGED <<ldFile, ldOut, snVars, rtLists, rtCount, rtLast>>
    /\ LdFrame

\* `except Exception as e: print(...)`, then `return sna, rtb` with rtb = None
LdExcept ==
    /\ ldPc = "from_file" /\ rtPc = "raised"
    /\ ldPc' = "returned"
    /\ ldOut' = [NoOutcome EXCEPT !.blocks = snBlocks, !.warning = TRUE]
    /\ UNCHANGED <<ldFile, snVars, rtVars>>
    /\ LdFrame

\* from_file returned the table: `return sna, rtb`
LdReturn ==
    /\ ldPc = "from_file" /\ rtPc = "returned"
    /\ ldPc' = "returned"
    /\ ldOut' = [NoOutcome EXCEPT !.blocks = snBlocks, !.loaded = TRUE,
                                  !.pointer_blocks = rtLists]
    /\ UNCHANGED <<ldFile, snVars, rtVars>>
    /\ LdFrame

NextLoad ==
    \/ SnaReadTerminator
    \/ SnaReadEmptyBlock
    \/ SnaReadPayloadBlock
    \/ SnaRaise
    \/ SnaReturn
    \/ LdRaise
    \/ LdReturnWithoutRtb
    \/ LdFromFile
    \/ RtbConstruct
    \/ RtbReadCount
    \/ RtbReadList
    \/ RtbRaise
    \/ RtbReturn
    \/ LdExcept
    \/ LdReturn

(***************************************************************************)
(* SpecCipher: an EncryptedReader, with or without encryption, and up to   *)
(* MaxCalls calls of XORMask.decode_byte, XORMask.decode_bytes and         *)
(* EncryptedReader.read on it, one action per call.                        *)
(***************************************************************************)
\* the mask bytes: 0x80000081, 0xffffffff, 0x00008000 and 0x00000001
CiMasks == { <<129, 0, 0, 128>>, <<255, 255, 255, 255>>, <<0, 128, 0, 0>>, <<1, 0, 0, 0>> }

CiStreams == {mask_bytes \o <<0, 255, 90>> : mask_bytes \in CiMasks}

CiBytes == {0, 90, 255}

CiData == SeqsUpTo({0, 255}, 2)

CiSizes == {0, 1, 2}

NoCall == [op |-> "none", in |-> <<>>, out |-> <<>>, before |-> NewMask,
           enabled |-> FALSE]

CiFrame == UNCHANGED <<lzVars, snVars, rdVars, rtVars, coVars, ldVars, chVars>>

CiIdle == ciReader = NewReader(<<>>, FALSE) /\ ciCalls = 0 /\ ciLast = NoCall

\* EncryptedReader(stream, encrypted)
InitCipher ==
    /\ ciReader \in {EncryptedReader(stream, encrypted) :
                        stream \in CiStreams, encrypted \in BOOLEAN}
    /\ ciCalls = 0
    /\ ciLast = NoCall

\* reader.mask.decode_byte(b)
CiDecodeByte(b) ==
    /\ ciCalls < MaxCalls
    /\ ciReader' = [ciReader EXCEPT !.x = MaskAfterByte(@)]
    /\ ciLast' = [op |-> "decode_byte", in |-> <<b>>,
                  out |-> <<decode_byte(ciReader.x, b)>>,
                  before |-> ciReader.x, enabled |-> ciReader.x.initialized]
    /\ ciCalls' = ciCalls + 1
    /\ CiFrame

\* reader.mask.decode_bytes(data)
CiDecodeBytes(data) ==
    /\ ciCalls < MaxCalls
    /\ ciReader' = [ciReader EXCEPT !.x = IF @.initialized
                                          THEN MaskAfterBytes(@, Len(data)) ELSE @]
    /\ ciLast' = [op |-> "decode_bytes", in |-> data,
                  out |-> decode_bytes(ciReader.x, data),
                  before |-> ciReader.x, enabled |-> ciReader.x.initialized]
    /\ ciCalls' = ciCalls + 1
    /\ CiFrame

\* reader.read(size)
CiRead(size) ==
    /\ ciCalls < MaxCalls
    /\ ciReader' = read(ciReader, size)
    /\ ciLast' = [op |-> "read",
                  in |-> SubSeq(ciReader.raw, ciReader.pos + 1, ciReader'.pos),
                  out |-> ciReader'.data,
                  before |-> ciReader.x, enabled |-> ciReader.encrypted]
    /\ ciCalls' = ciCalls + 1
    /\ CiFrame

NextCipher ==
    \/ \E b \in CiBytes : CiDecodeByte(b)
    \/ \E data \in CiData : CiDecodeBytes(data)
    \/ \E size \in CiSizes : CiRead(size)

(***************************************************************************)
(* SpecSeek: an EncryptedReader and up to MaxCalls calls of read and seek  *)
(* on it, as FileWithPointers.goto and FileWithPointers.do_at make them.   *)
(***************************************************************************)
\* the offsets of the bytes after the mask, and the end of the stream
CiOffsets == 4..7

\* reader.seek(offset): `return self.stream.seek(offset, whence)`
CiSeek(offset) ==
    /\ ciCalls < MaxCalls
    /\ ciReader' = [ciReader EXCEPT !.pos = offset]
    /\ ciLast' = [op |-> "seek", in |-> <<>>, out |-> <<>>,
                  before |-> ciReader.x, enabled |-> ciReader.encrypted]
    /\ ciCalls' = ciCalls + 1
    /\ CiFrame

NextSeek ==
    \/ \E size \in CiSizes : CiRead(size)
    \/ \E offset \in CiOffsets : CiSeek(offset)

(***************************************************************************)
(* SpecLookup: an SNADataReader over containers in which a key is repeated *)
(* or belongs to the terminator only; calls of set_block and seek.         *)
(***************************************************************************)
LkTerminator(module, block_id, data_position) ==
    [RdBlock(module, block_id, -1, <<>>) EXCEPT !.data_position = data_position]

LkContainers ==
    { << RdBlock(0, 0, 4096, <<1, 2>>), RdBlock(0, 1, 8192, <<3, 4>>),
         LkTerminator(0, 0, 4) >>,
      << RdBlock(0, 0, 4096, <<1, 2>>), RdBlock(0, 0, 12288, <<3, 4>>),
         LkTerminator(0, 2, 4) >>,
      << RdBlock(0, 1, 4096, <<1, 2>>), RdBlock(0, 0, 8192, <<>>),
         RdBlock(0, 1, 12288, <<3, 4>>), LkTerminator(0, 1, 4) >>,
      << RdBlock(0, 1, 4096, <<1, 2>>), LkTerminator(0, 2, 2) >>,
      << LkTerminator(0, 0, 0) >>,
      << >> }

LkIds == {0, 1, 2}

LkOffsets == 0..5

\* SNADataReader.__init__
InitLookup ==
    /\ rdSna \in LkContainers
    /\ rdRtb = <<>>
    /\ rdCur = 0
    /\ rdPosition = 0
    /\ rdData = <<>>
    /\ rdBase = 0
    /\ rdPtr = NoPointer
    /\ rdLast = [op |-> "init", ok |-> TRUE]

NextLookup ==
    \/ \E module \in {0}, block_id \in LkIds : RdSetBlock(module, block_id)
    \/ \E offset \in LkOffsets : RdSeek(offset)

(***************************************************************************)
(* SpecChunks: two calls of decompress on one LzoDecompressor.             *)
(***************************************************************************)
\* LzoDecompressor.decompress as one call on decompressor d: `result` and
\* `pos` start afresh, the fields of d are those the previous call left
decompress(d, output_size) == DecompressLoop([d EXCEPT !.out = <<>>], output_size)

\* an initial run of `state` literals, a short match I at distance 1 with its
\* I & 3 trailing literals, an instruction J with a zero operand, and a tail
ChStream(state, I, J) ==
    DePrefix(state) \o <<I, 0>> \o SubSeq(<<99, 98, 97>>, 1, I % 4)
        \o <<J, 0>> \o <<90, 91, 92, 93, 17, 0, 0>>

ChStreams ==
    {ChStream(state, I, J) :
        state \in 1..4, I \in {64, 65, 66, 67, 96, 129}, J \in {0, 1, 4, 5}}

ChFrame == UNCHANGED <<lzVars, snVars, rdVars, rtVars, coVars, ldVars, ciVars>>

ChIdle ==
    /\ chSrc = <<>> /\ chN1 = 0 /\ chN2 = 0 /\ chPc = "idle"
    /\ ch = NewDecompressor(<<>>) /\ chOne = <<>> /\ chTwo = <<>>

InitChunks ==
    /\ chSrc \in ChStreams
    /\ chN1 \in 0..MaxChunk
    /\ chN2 \in 0..MaxChunk
    /\ chPc = "new"
    /\ ch = NewDecompressor(chSrc)
    /\ chOne = <<>>
    /\ chTwo = <<>>

\* decompressor = LzoDecompressor(stream)
ChConstruct ==
    /\ chPc = "new"
    /\ ch' = DecodeFirstByte(NewDecompressor(chSrc))
    /\ chPc' = IF ch'.err # "none" THEN "raised" ELSE "constructed"
    /\ UNCHANGED <<chSrc, chN1, chN2, chOne, chTwo>>
    /\ ChFrame

\* decompressor.decompress(n1)
ChFirst ==
    /\ chPc = "constructed"
    /\ ch' = decompress(ch, chN1)
    /\ chPc' = IF ch'.err # "none" THEN "raised" ELSE "first"
    /\ chOne' = IF ch'.err # "none" THEN chOne ELSE Result(ch'.out, chN1)
    /\ UNCHANGED <<chSrc, chN1, chN2, chTwo>>
    /\ ChFrame

\* decompressor.decompress(n2), on the same object
ChSecond ==
    /\ chPc = "first"
    /\ ch' = decompress(ch, chN2)
    /\ chPc' = IF ch'.err # "none" THEN "raised" ELSE "second"
    /\ chTwo' = IF ch'.err # "none" THEN chTwo ELSE Result(ch'.out, chN2)
    /\ UNCHANGED <<chSrc, chN1, chN2, chOne>>
    /\ ChFrame

NextChunks ==
    \/ ChConstruct
    \/ ChFirst
    \/ ChSecond

(***************************************************************************)
(* SpecParse: a run of SNAReader.read or a run of decompress_lzo, under    *)
(* the assumption that a running call takes its next step.  The steps are  *)
(* those of SpecSna and SpecDecode; the values that ReadRecord,            *)
(* DecodeFirstByte and DecompressIteration give on the inputs of the       *)
(* specification are tabulated once, so that whether a step is enabled is  *)
(* a lookup.                                                               *)
(***************************************************************************)
\* the cursor positions at which the loop of SNAReader.read starts an iteration
RECURSIVE SnaPositions(_, _)
SnaPositions(raw, pos) ==
    IF pos >= Len(raw) THEN {}
    ELSE {pos} \cup (IF ReadRecord(raw, pos).kind \in {"raise", "terminator"} THEN {}
                     ELSE SnaPositions(raw, ReadRecord(raw, pos).pos))

\* ReadRecord at those positions
PaRecords ==
    [p \in UNION {{<<raw, pos>> : pos \in SnaPositions(raw, 0)} : raw \in SnInputs}
        |-> ReadRecord(p[1], p[2])]

PaStreams ==
    {<<>>}
    \cup {DeStream(state, instruction, operands, MaxFill) :
            state \in {0, 2, 4}, instruction \in {0, 1, 6, 15},
            operands \in {<<0, 0>>, <<1, 255>>}}
    \cup {DeStream(LARGE_COPY, instruction, operands, MaxFill) :
            instruction \in {16, 17, 24, 31, 32, 33, 64, 67, 129, 224, 255},
            operands \in {<<0, 0>>, <<0, 1>>, <<1, 255>>}}
    \cup {DeStream(ZERO_COPY, 0, <<0, 1>>, 256 + MaxFill)}

\* LzoDecompressor(stream) for those streams
PaDecompressors == [src \in PaStreams \ {<<>>} |-> DecodeFirstByte(NewDecompressor(src))]

\* the decompressors that the loop of decompress(output_size) goes through
RECURSIVE LzoStates(_, _)
LzoStates(d, output_size) ==
    IF ~Ok(d) \/ ~LoopCondition(d, output_size) THEN {}
    ELSE {d} \cup LzoStates(DecompressIteration(d, output_size), output_size)

\* DecompressIteration on those decompressors
PaIterations ==
    [p \in UNION {{<<d, n>> : d \in LzoStates(PaDecompressors[src], n)} :
                    src \in PaStreams \ {<<>>}, n \in DeSizes \ {0}}
        |-> DecompressIteration(p[1], p[2])]

InitParse == SnIdle /\ LzIdle

\* SNAReader(data).read() is called
ParseCallsRead ==
    /\ snPc = Idle /\ lzPc = Idle
    /\ snRaw' \in SnInputs
    /\ snPc' = "loop"
    /\ UNCHANGED <<snPos, snBlocks, snParts, snCurPos, snLast>>
    /\ SnFrame

\* decompress_lzo(compressed_data, decompressed_size) is called
ParseCallsDecompress ==
    /\ snPc = Idle /\ lzPc = Idle
    /\ lzSrc' \in PaStreams
    /\ lzN' \in DeSizes
    /\ lz' = NewDecompressor(lzSrc')
    /\ lzPc' = "call"
    /\ UNCHANGED <<lzRet, lzMark>>
    /\ LzFrame

\* SNAReader.read: one iteration of the loop that appends a block
PaReadBlock ==
    /\ snPc = "loop" /\ SnaLoopCondition
    /\ PaRecords[<<snRaw, snPos>>].kind # "raise"
    /\ SnaAppend(PaRecords[<<snRaw, snPos>>])
    /\ snPc' = IF PaRecords[<<snRaw, snPos>>].kind = "terminator"
               THEN AfterTerminator ELSE "loop"
    /\ UNCHANGED snRaw
    /\ SnFrame

\* SNAReader.read: one iteration that raises
PaReadRaises ==
    /\ snPc = "loop" /\ SnaLoopCondition
    /\ PaRecords[<<snRaw, snPos>>].kind = "raise"
    /\ snLast' = PaRecords[<<snRaw, snPos>>]
    /\ snPc' = "raised"
    /\ UNCHANGED <<snRaw, snPos, snBlocks, snParts, snCurPos>>
    /\ SnFrame

\* decompress_lzo: `decompressor = LzoDecompressor(stream)`
PaConstruct ==
    /\ lzPc = "call" /\ ~IsEmptyInput(lzSrc) /\ lzN # 0
    /\ lz' = PaDecompressors[lzSrc]
    /\ lzPc' = IF lz'.err # "none" THEN "raised" ELSE "loop"
    /\ UNCHANGED <<lzSrc, lzN, lzRet, lzMark>>
    /\ LzFrame

\* LzoDecompressor.decompress: one iteration of the while loop
PaIterate ==
    /\ lzPc = "loop" /\ LoopCondition(lz, lzN)
    /\ lz' = PaIterations[<<lz, lzN>>]
    /\ lzPc' = IF lz'.err # "none" THEN "raised" ELSE "loop"
    /\ lzMark' = IF lz'.finished /\ ~lz.finished THEN lz'.sp ELSE lzMark
    /\ UNCHANGED <<lzSrc, lzN, lzRet>>
    /\ LzFrame

NextParse ==
    \/ ParseCallsRead
    \/ ParseCallsDecompress
    \/ PaReadBlock
    \/ PaReadRaises
    \/ SnaReturn
    \/ LzoEmptyInput
    \/ LzoZeroSize
    \/ PaConstruct
    \/ PaIterate
    \/ LzoReturn

(***************************************************************************)
(* The specifications.                                                     *)
(***************************************************************************)
InitSpecLzo == InitLzo /\ SnIdle /\ RdIdle /\ RtIdle /\ CoIdle /\ LdIdle /\ CiIdle /\ ChIdle
InitSpecSna == InitSna /\ LzIdle /\ RdIdle /\ RtIdle /\ CoIdle /\ LdIdle /\ CiIdle /\ ChIdle
InitSpecReader == InitReader /\ LzIdle /\ SnIdle /\ RtIdle /\ CoIdle /\ LdIdle /\ CiIdle /\ ChIdle
InitSpecRtb == InitRtb /\ LzIdle /\ SnIdle /\ RdIdle /\ CoIdle /\ LdIdle /\ CiIdle /\ ChIdle
InitSpecCallers == InitCallers /\ LzIdle /\ SnIdle /\ RtIdle /\ LdIdle /\ CiIdle /\ ChIdle
InitSpecLoad == InitLoad /\ LzIdle /\ RdIdle /\ CoIdle /\ CiIdle /\ ChIdle
InitSpecDecode == InitDecode /\ SnIdle /\ RdIdle /\ RtIdle /\ CoIdle /\ LdIdle /\ CiIdle /\ ChIdle
InitSpecChunks == InitChunks /\ LzIdle /\ SnIdle /\ RdIdle /\ RtIdle /\ CoIdle /\ LdIdle /\ CiIdle
InitSpecParse == InitParse /\ RdIdle /\ RtIdle /\ CoIdle /\ LdIdle /\ CiIdle /\ ChIdle
InitSpecSeek == InitCipher /\ LzIdle /\ SnIdle /\ RdIdle /\ RtIdle /\ CoIdle /\ LdIdle /\ ChIdle
InitSpecLookup == InitLookup /\ LzIdle /\ SnIdle /\ RtIdle /\ CoIdle /\ LdIdle /\ CiIdle /\ ChIdle
InitSpecCipher == InitCipher /\ LzIdle /\ SnIdle /\ RdIdle /\ RtIdle /\ CoIdle /\ LdIdle /\ ChIdle

SpecLzo == InitSpecLzo /\ [][NextLzo]_vars
SpecSna == InitSpecSna /\ [][NextSna]_vars
SpecReader == InitSpecReader /\ [][NextReader]_vars
SpecRtb == InitSpecRtb /\ [][NextRtb]_vars
SpecCallers == InitSpecCallers /\ [][NextCallers]_vars
SpecLoad == InitSpecLoad /\ [][NextLoad]_vars
SpecCipher == InitSpecCipher /\ [][NextCipher]_vars
SpecDecode == InitSpecDecode /\ [][NextLzo]_vars
SpecChunks == InitSpecChunks /\ [][NextChunks]_vars
SpecLookup == InitSpecLookup /\ [][NextLookup]_vars
SpecSeek == InitSpecSeek /\ [][NextSeek]_vars
SpecParse == InitSpecParse /\ [][NextParse]_vars /\ WF_vars(NextParse)

(***************************************************************************)
(* Properties of SNADataReader (SpecReader).                               *)
(***************************************************************************)
\* C1: a pointer read from block S at a payload offset that the relocation
\* table lists (entry for S at S.base_in_memory + offset, naming a block T
\* other than S) and then followed with goto_pointer selects block T and puts
\* the cursor at (stored raw value - T.base_in_memory), whenever that offset
\* lies inside T's data.
C1_PointerResolvesToTargetBlock ==
    (rdLast.op = "goto_pointer" /\ rdPtr.from_block # 0 /\ rdPtr.offset # 0) =>
        \A li \in 1..Len(rdRtb) : \A k \in 1..Len(rdRtb[li].pointers) :
            ( /\ li = get_list_for_part(rdRtb, rdSna[rdPtr.from_block].module,
                                        rdSna[rdPtr.from_block].block_id)
              /\ rdRtb[li].pointers[k].offset_in_memory =
                    rdSna[rdPtr.from_block].base_in_memory + rdPtr.from_position
              /\ get_block(rdSna, rdRtb[li].pointers[k].module,
                           rdRtb[li].pointers[k].block_id) \notin {0, rdPtr.from_block}
              /\ rdPtr.offset >= rdSna[get_block(rdSna, rdRtb[li].pointers[k].module,
                                   rdRtb[li].pointers[k].block_id)].base_in_memory
              /\ rdPtr.offset < rdSna[get_block(rdSna, rdRtb[li].pointers[k].module,
                                   rdRtb[li].pointers[k].block_id)].base_in_memory
                                + Len(rdSna[get_block(rdSna, rdRtb[li].pointers[k].module,
                                   rdRtb[li].pointers[k].block_id)].data) )
            => ( /\ rdCur = get_block(rdSna, rdRtb[li].pointers[k].module,
                                      rdRtb[li].pointers[k].block_id)
                 /\ rdPosition = rdPtr.offset - rdSna[rdCur].base_in_memory )

(***************************************************************************)
(* Properties of SNAReader.read (SpecSna).                                 *)
(***************************************************************************)
\* C2: a terminator block (base_in_memory = -1) is the last block of the
\* list, its data is empty, the loop is left once it is read and the cursor
\* stays 6 bytes after the start of its record whatever follows; an input
\* that starts with a terminator record gives one block and empty data.
C2_TerminatorEndsTheRead ==
    /\ \A i \in 1..Len(snBlocks) : is_terminator(snBlocks[i]) =>
            /\ i = Len(snBlocks)
            /\ snBlocks[i].data = <<>>
            /\ snLast.kind = "terminator"
            /\ snPos = snLast.start + 6
            /\ snPc \in {"break", "returned"}
    /\ (snPc = "returned" /\ Len(snRaw) >= 6 /\ \A j \in 3..6 : snRaw[j] = 255) =>
            (Len(snBlocks) = 1 /\ is_terminator(snBlocks[1]) /\ snParts = <<>>)

\* the read returned a record and a terminator, and bytes follow the terminator
C2_Witness ==
    /\ snPc = "returned" /\ Len(snBlocks) = 2
    /\ ~is_terminator(snBlocks[1]) /\ is_terminator(snBlocks[2])
    /\ snPos < Len(snRaw)

\* C3: the payload of a block whose PayloadHeader has is_compressed = 0 is
\* the first decompressed_size bytes of the compressed_size bytes that follow
\* the header (records that are wholly present in the input).
C3_StoredPayloadIsDecompressedSizePrefix ==
    (snLast.kind = "stored" /\ snLast.pos <= Len(snRaw)) =>
        snBlocks[Len(snBlocks)].data =
            Slice(Slice(snRaw, snLast.start + 42,
                        FromBytesUnsigned(Slice(snRaw, snLast.start + 26, 4))),
                  0, FromBytesUnsigned(Slice(snRaw, snLast.start + 34, 4)))

\* C4: an iteration that starts at a record whose 22 header bytes are present,
\* whose block_size bytes are 0 and whose base_in_memory is not -1 appends a
\* block with empty data, adds nothing to the combined data and leaves the
\* cursor 22 bytes further; the next iteration starts there.
C4_EmptyBlockConsumesHeaderOnly ==
    [][ /\ ( /\ snLast' # snLast
             /\ Len(snRaw) >= snPos + 22
             /\ \A j \in 19..22 : snRaw[snPos + j] = 0
             /\ \E j \in 3..6 : snRaw[snPos + j] # 255 )
           => ( /\ snLast'.kind = "empty"
                /\ snBlocks' = Append(snBlocks, snBlocks'[Len(snBlocks')])
                /\ snBlocks'[Len(snBlocks')].data = <<>>
                /\ snParts' = snParts
                /\ snPos' = snPos + 22 )
        /\ (snLast.kind = "empty" /\ snLast' # snLast)
           => snLast'.start = snLast.start + 22
      ]_vars

\* an empty block was read from the start and the terminator right after it
C4_Witness ==
    /\ snPc = "returned" /\ Len(snBlocks) = 2
    /\ snBlocks[1].size = 0 /\ ~is_terminator(snBlocks[1]) /\ snBlocks[1].data = <<>>
    /\ snLast.kind = "terminator" /\ snLast.start = 22

\* C5: the read appends no block and returns no container when the input
\* ends before the last byte of a record it reads (a fixed-width field or the
\* compressed_size bytes of the payload): every record that an iteration
\* accepted lies wholly inside the input.
C5_TruncatedRecordIsRejected ==
    (snLast.kind \in {"terminator", "empty", "stored", "lzo"}) =>
        snLast.pos <= Len(snRaw)

(***************************************************************************)
(* Properties of decompress_lzo (SpecLzo).                                 *)
(***************************************************************************)
\* C6: the literal-only stream [17+n] ++ buf ++ [0x11, 0x00, 0x00] of a buffer
\* buf of n >= 1 bytes, decompressed with decompressed_size n, raises nothing
\* and returns exactly buf, in the loop of the decompressor as in the value
\* of decompress_lzo.
C6_LiteralRoundTrip ==
    ( /\ Len(lzSrc) >= 5
      /\ lzSrc[1] = 17 + (Len(lzSrc) - 4)
      /\ SubSeq(lzSrc, Len(lzSrc) - 2, Len(lzSrc)) = <<17, 0, 0>>
      /\ lzN = Len(lzSrc) - 4 )
    => ( /\ lzPc # "raised"
         /\ lzPc = "returned" => lzRet = SubSeq(lzSrc, 2, Len(lzSrc) - 3)
         /\ decompress_lzo(lzSrc, lzN).err = "none"
         /\ decompress_lzo(lzSrc, lzN).data = SubSeq(lzSrc, 2, Len(lzSrc) - 3) )

\* [0x12, 0x41, 0x11, 0x00, 0x00] with decompressed_size 1 returned b"A"
C6_Witness ==
    lzPc = "returned" /\ lzSrc = <<18, 65, 17, 0, 0>> /\ lzN = 1 /\ lzRet = <<65>>

\* C7: the loop ends at the end-of-stream marker or once decompressed_size
\* bytes are produced, whichever is first.  The step that recognises the
\* marker (_decode returns -1) produces no output, sets _finished and leaves
\* the source right after the two distance bytes of an instruction 16..23;
\* from then on no source byte is read and no output is produced; nothing is
\* read either once decompressed_size bytes are produced; and the call
\* returns only in one of the two cases.
C7_StopsAtMarkerOrSize ==
    [][ /\ (lz.read < 0) =>
              (lz'.sp = lz.sp /\ lz'.out = lz.out /\ lz'.buf = lz.buf)
        /\ (lz'.read < 0) =>
              ( /\ lz'.finished
                /\ lz'.sp = lzMark'
                /\ lz'.sp >= 3
                /\ lzSrc[lz'.sp] = 0 /\ lzSrc[lz'.sp - 1] < 4
                /\ lz'.instruction \in 16..23
                /\ lz'.out = lz.out /\ lz'.buf = <<>> )
        /\ (lzPc = "loop" /\ Len(lz.out) >= lzN) => lz'.sp = lz.sp
        /\ (lzPc = "loop" /\ lzPc' = "returned") =>
              (lz.finished \/ Len(lz.out) = lzN)
      ]_vars

\* the marker came first, before decompressed_size bytes, and bytes follow it
C7_Witness ==
    /\ lzPc = "returned" /\ lz.finished /\ lz.read < 0
    /\ lz.sp < Len(lzSrc) /\ Len(lz.out) < lzN

\* C8: a stream that reaches its end-of-stream marker after fewer than
\* decompressed_size bytes makes decompress_lzo raise: the call never returns
\* a buffer in that case.
C8_ShortStreamRaises ==
    (lz.finished /\ Len(lz.out) < lzN) => lzPc # "returned"

\* C9: a call in which a match reached further back than the bytes produced
\* so far raises: it never returns a buffer.
C9_DistanceBeyondHistoryRaises ==
    lz.beyond => lzPc # "returned"

\* C10 as stated: for every non-empty input and every decompressed_size, 0
\* included, the call raises "Invalid first instruction" exactly when the
\* first byte is 16 or 17.
C10_InvalidFirstForEverySize ==
    (Len(lzSrc) > 0 /\ lzPc \in {"returned", "raised"}) =>
        ((lzSrc[1] \in {16, 17}) <=> (lzPc = "raised" /\ lz.err = "InvalidFirst"))

\* C10, amended: for every non-empty input and every decompressed_size >= 1
\* the call raises "Invalid first instruction" exactly when the first byte is
\* 16 or 17, and it raises it before anything else is read; with
\* decompressed_size 0 the call returns the empty buffer whatever the first
\* byte is.
C10_InvalidFirstForPositiveSize ==
    /\ (Len(lzSrc) > 0 /\ lzN > 0 /\ lzPc # "call") =>
          /\ (lzSrc[1] \in {16, 17}) <=> (lz.err = "InvalidFirst")
          /\ (lz.err = "InvalidFirst") => (lzPc = "raised" /\ lz.sp = 1)
    /\ (Len(lzSrc) > 0 /\ lzN = 0 /\ lzPc # "call") =>
          (lzPc = "returned" /\ lzRet = <<>>)

\* a stream of several bytes that starts with 16 raised
C10_Witness ==
    /\ lzPc = "raised" /\ lz.err = "InvalidFirst"
    /\ lzSrc[1] = 16 /\ Len(lzSrc) > 1 /\ lzN > 0

\* C11: a zero-length input returns the empty buffer for every
\* decompressed_size: the call never raises, and the decompressor is neither
\* constructed nor run (no byte read, no instruction decoded, nothing produced).
C11_EmptyInputReturnsEmpty ==
    (Len(lzSrc) = 0) =>
        /\ lzPc \in {"call", "returned"}
        /\ lzPc = "returned" => lzRet = <<>>
        /\ lz = NewDecompressor(<<>>)
        /\ decompress_lzo(lzSrc, lzN) = [err |-> "none", data |-> <<>>]

\* the empty input returned the empty buffer for a positive decompressed_size
C11_Witness ==
    lzPc = "returned" /\ lzSrc = <<>> /\ lzN = MaxOutSize /\ lzRet = <<>>

(***************************************************************************)
(* Properties of RelocationTable.from_bytes (SpecRtb).                     *)
(***************************************************************************)
\* C12: a whole stream of 6-byte pointers never raises; the lists read so far
\* are the first lists of the table it was made from, in file order, each
\* with count pointers whose fields are the little-endian u32 and the two u8
\* of the stream, all within their unsigned ranges; the call returns exactly
\* the lists that the first byte counts, with the stream read to its end; and
\* an iteration that reads a list of count 0 moves the stream by exactly the
\* 6 bytes of the list header, in compressed mode as in uncompressed mode.
C12_TableIsDecodedInOrder ==
    (rtIn.whole /\ rtIn.width = 6 /\ rtPc # Idle) =>
        /\ rtPc # "raised"
        /\ Len(rtLists) <= Len(rtIn.lists)
        /\ rtLists = SubSeq(rtIn.lists, 1, Len(rtLists))
        /\ \A i \in 1..Len(rtLists) :
              /\ Len(rtLists[i].pointers) = rtLists[i].count
              /\ rtLists[i].module \in 0..255 /\ rtLists[i].block_id \in 0..255
              /\ \A k \in 1..Len(rtLists[i].pointers) :
                    /\ rtLists[i].pointers[k].offset_in_memory >= 0
                    /\ rtLists[i].pointers[k].module \in 0..255
                    /\ rtLists[i].pointers[k].block_id \in 0..255
        /\ rtPc = "returned" =>
              /\ Len(rtLists) = Len(rtIn.lists)
              /\ rtReader.pos = Len(rtIn.raw)
              /\ ~rtReader.short
        /\ (rtLast.done /\ rtLast.count = 0) => rtLast.end = rtLast.start + 6

\* an encrypted stream with LZO inner blocks returned two lists, the first
\* with two pointers and the second, read last, with none
C12_Witness ==
    /\ rtPc = "returned" /\ rtIn.whole /\ rtIn.width = 6
    /\ rtIn.encrypted /\ rtIn.mode = "lzo"
    /\ Len(rtLists) = 2 /\ rtLists[1].count = 2 /\ rtLists[2].count = 0
    /\ rtLists[1].pointers[1].block_id = 255
    /\ rtLast.done /\ rtLast.count = 0

\* C13: the call raises whenever the stream ends before a field that the
\* parser reads is complete: it never returns a table after a read that got
\* fewer bytes than it asked for.
C13_TruncatedStreamRaises ==
    (rtPc = "returned") => ~rtReader.short

\* C14: in uncompressed mode an iteration that reads a list of count > 0
\* from a whole stream of pointers entryWidth bytes wide (6 or 8) moves the
\* stream by the 6 header bytes and count * entryWidth bytes, and the
\* pointers it reads are those of the stream.
C14_PointerWidthIsConfigured ==
    (rtIn.whole /\ rtIn.mode = "plain" /\ rtLast.done /\ rtLast.count > 0) =>
        /\ rtLast.end = rtLast.start + 6 + (rtLast.count * rtIn.width)
        /\ rtLists[Len(rtLists)] = rtIn.lists[Len(rtLists)]

\* the scalar reads of SNADataReader
ScalarReads == {"read_u8", "read_i8", "read_u16", "read_u32", "read_string"}

\* C15: every scalar read either returns a value decoded from exactly
\* payload[pos : pos + width], with 0 <= pos and pos + width <= len(payload),
\* and advances the cursor by width, or fails with EOFError and leaves the
\* cursor where it was
C15_ScalarReadsAreBoundsChecked ==
    (rdLast.op \in ScalarReads) =>
        \/ /\ rdLast.err = "none"
           /\ 0 <= rdLast.from
           /\ rdLast.from + rdLast.width <= Len(rdData)
           /\ rdLast.bytes = SubSeq(rdData, rdLast.from + 1, rdLast.from + rdLast.width)
           /\ rdPosition = rdLast.from + rdLast.width
        \/ /\ rdLast.err = "EOFError"
           /\ rdPosition = rdLast.from

C17_InterleavedQueriesReturnAsAlone ==
    /\ \A c \in DOMAIN coPc :
          (coPc[c] = "done") => (coRes[c] = Alone(rdSna, coQuery[c]))
    /\ (coPc # <<>>) => (rdSna \in {RdContainer(raw) : raw \in RdRawValues} /\ rdRtb \in RdTables)

\* C17, the part about the shared data: no call of a query changes the
\* container's blocks or the relocation table
C17_QueriesLeaveContainerAndTable ==
    [][rdSna' = rdSna /\ rdRtb' = rdRtb]_vars

\* C18: when parsing the container or the relocation table of a level
\* fails, load_level fails; it never returns with the failed part replaced
\* by an absent value
C18_LoadPropagatesParseErrors ==
    /\ (ldPc = "returned") => (snPc = "returned" /\ rtPc # "raised")
    /\ (ldPc = "returned" /\ ldFile.exists) => ldOut.loaded

\* bit j (0 = lowest) of a 32-bit mask kept as two 16-bit halves
MaskBit(mask, j) ==
    IF j < 16 THEN (mask.lo \div (2 ^ j)) % 2 ELSE (mask.hi \div (2 ^ (j - 16))) % 2

\* bit k of a byte
ByteBit(b, k) == (b \div (2 ^ k)) % 2

\* C19: with an initialised mask, byte i of a call's output is byte i of its
\* input XOR the low 8 bits of the mask as it is before that byte, the mask
\* being rotated left by one bit after each byte whatever the data, and the
\* mask stays within 32 bits; with the cipher disabled the bytes come back
\* unchanged and the mask does not change
C19_CipherStep ==
    /\ ciReader.x.mask.lo \in 0..65535
    /\ ciReader.x.mask.hi \in 0..65535
    /\ (ciLast.op # "none" /\ ciLast.enabled) =>
          /\ Len(ciLast.out) = Len(ciLast.in)
          /\ \A i \in 1..Len(ciLast.in) :
                /\ ciLast.out[i] \in 0..255
                /\ \A k \in 0..7 :
                      ByteBit(ciLast.out[i], k)
                        = (ByteBit(ciLast.in[i], k)
                           + MaskBit(ciLast.before.mask, (k + 33 - i) % 32)) % 2
          /\ \A j \in 0..31 :
                MaskBit(ciReader.x.mask, j)
                  = MaskBit(ciLast.before.mask, (j + 32 - Len(ciLast.in)) % 32)
    /\ (ciLast.op # "none" /\ ~ciLast.enabled) =>
          /\ ciLast.out = ciLast.in
          /\ ciReader.x = ciLast.before
          /\ ciReader.x = NewMask

C19_Witness ==
    /\ ciLast.op = "read"
    /\ ciLast.enabled
    /\ ciLast.before.mask = MaskOf(<<129, 0, 0, 128>>)
    /\ ciLast.in = <<0, 255>>
    /\ ciLast.out = <<129, 252>>
    /\ ciReader.x.mask = [lo |-> 518, hi |-> 0]

\* the key of every pair of u8 values gives the pair back, and is the value
\* of get_relocation_key
KeyDecodes ==
    \A module \in 0..255 : \A block_id \in 0..255 :
        /\ relocation_key([module |-> module, block_id |-> block_id]) \div 256 = module
        /\ relocation_key([module |-> module, block_id |-> block_id]) % 256 = block_id
        /\ relocation_key([module |-> module, block_id |-> block_id])
             = get_relocation_key(module, block_id)

\* C20: every parsed block has module and block_id in 0..255, size >= 0 and
\* relocation_key = (module << 8) | block_id = get_relocation_key(module,
\* block_id); two blocks have the same key iff they have the same module and
\* block_id, and over all pairs of u8 values the key determines the pair
C20_RelocationKey ==
    /\ \A i \in 1..Len(snBlocks) :
          /\ snBlocks[i].module \in 0..255
          /\ snBlocks[i].block_id \in 0..255
          /\ snBlocks[i].size >= 0
          /\ relocation_key(snBlocks[i]) = (snBlocks[i].module * 256) + snBlocks[i].block_id
          /\ relocation_key(snBlocks[i])
               = get_relocation_key(snBlocks[i].module, snBlocks[i].block_id)
    /\ \A i \in 1..Len(snBlocks) : \A j \in 1..Len(snBlocks) :
          (relocation_key(snBlocks[i]) = relocation_key(snBlocks[j]))
            <=> (/\ snBlocks[i].module = snBlocks[j].module
                 /\ snBlocks[i].block_id = snBlocks[j].block_id)
    /\ KeyDecodes

C20_Witness ==
    /\ snPc = "returned"
    /\ Len(snBlocks) = 2
    /\ snBlocks[1].module = 255 /\ snBlocks[1].block_id = 255
    /\ relocation_key(snBlocks[1]) = 65535
    /\ is_terminator(snBlocks[2])
    /\ relocation_key(snBlocks[2]) = 0

\* a step of decompress that decodes one instruction (nothing is buffered)
\* and raises nothing
IsDecodeStep ==
    /\ lzPc = "loop" /\ lzPc' = "loop"
    /\ LoopCondition(lz, lzN)
    /\ Len(lz.buf) = 0

\* the variable-length extension that starts at source position p: each zero
\* byte adds 255, the first non-zero byte is added and ends it
RECURSIVE ExtValue(_, _)
ExtValue(src, p) ==
    IF p >= Len(src) THEN 0
    ELSE IF src[p + 1] # 0 THEN src[p + 1]
    ELSE 255 + ExtValue(src, p + 1)

\* the number of bytes of that extension
RECURSIVE ExtBytes(_, _)
ExtBytes(src, p) ==
    IF p >= Len(src) THEN 0
    ELSE IF src[p + 1] # 0 THEN 1
    ELSE 1 + ExtBytes(src, p + 1)

\* the literal run of instruction I at source position p: its length, and
\* where its bytes start
RunLength(src, p, I) == IF I # 0 THEN 3 + I ELSE 3 + 15 + ExtValue(src, p)
RunStart(src, p, I) == IF I # 0 THEN p ELSE p + ExtBytes(src, p)

\* the bytes that the step produced, in the output or buffered
Produced == SubSeq(lz'.out \o lz'.buf, Len(lz.out) + 1, Len(lz'.out) + Len(lz'.buf))

\* C21: an instruction byte I in 0..15 is, in the zero-copy state, a literal
\* run of 3 + I source bytes (18 + extension when I = 0) that leaves the state
\* 4; in state 1, 2 or 3 a back-reference of length 2 at distance
\* (h << 2) + ((I >> 2) & 3) + 1, within 1..1024, followed by I & 3 literals;
\* in state 4 a back-reference of length 3 at distance
\* (h << 2) + ((I >> 2) & 3) + 2049, within 2049..3072, followed by I & 3
\* literals (h is the byte after the instruction)
C21_LowInstructionsDependOnState ==
    [][(IsDecodeStep /\ lz.instruction <= 15) =>
        IF lz.state = ZERO_COPY
        THEN /\ Produced = SubSeq(lz.src,
                                  RunStart(lz.src, lz.sp, lz.instruction) + 1,
                                  RunStart(lz.src, lz.sp, lz.instruction)
                                    + RunLength(lz.src, lz.sp, lz.instruction))
             /\ Len(Produced) = RunLength(lz.src, lz.sp, lz.instruction)
             /\ lz.instruction # 0 => Len(Produced) = 3 + lz.instruction
             /\ lz'.state = 4
             /\ lz'.match = lz.match
        ELSE /\ lz'.match.copy = (IF lz.state \in {1, 2, 3} THEN 2 ELSE 3)
             /\ lz'.match.distance
                  = (lz.src[lz.sp + 1] * 4) + ((lz.instruction \div 4) % 4)
                    + (IF lz.state \in {1, 2, 3} THEN 1 ELSE 2049)
             /\ lz.state \in {1, 2, 3} => lz'.match.distance \in 1..1024
             /\ lz.state = 4 => lz'.match.distance \in 2049..3072
             /\ lz'.match.state = lz.instruction % 4
             /\ Len(Produced) = lz'.match.copy + (lz.instruction % 4)
             /\ SubSeq(Produced, lz'.match.copy + 1, Len(Produced))
                  = SubSeq(lz.src, lz.sp + 2, lz.sp + 1 + (lz.instruction % 4))
    ]_vars

C21_Witness ==
    /\ lzSrc = DeStream(LARGE_COPY, 15, <<255, 1>>, MaxFill)
    /\ lzN = 30
    /\ Len(lz.out) = 10
    /\ lz.match = [distance |-> 3072, copy |-> 3, state |-> 3]
    /\ SubSeq(lz.out, 8, 10) = <<1, 17, 0>>

\* the length of the match of instruction I at source position p, whose low
\* bits (I % modulus) hold the length or, when zero, announce an extension
CodedLength(src, p, I, modulus) ==
    IF I % modulus = 0 THEN 2 + (modulus - 1) + ExtValue(src, p)
    ELSE 2 + (I % modulus)

\* the source position of the bytes s and d that follow the length
AfterLength(src, p, I, modulus) ==
    IF I % modulus = 0 THEN p + ExtBytes(src, p) ELSE p

\* ((d << 8) | s) >> 2 for the bytes s, d at source position q
CodedDistance(src, q) == ((src[q + 2] * 256) + src[q + 1]) \div 4

\* C22: the match instructions: I in 16..31 has length 2 + (I & 7), or
\* 2 + 7 + extension when I & 7 = 0, and distance
\* 16384 + ((I & 8) << 11) + (((d << 8) | s) >> 2), at most 49152, where the
\* distance 16384 is the end of the stream; I in 32..63 has length
\* 2 + (I & 31), or 2 + 31 + extension, and distance
\* (((d << 8) | s) >> 2) + 1 within 1..16384; I in 64..127 has length 3 or 4
\* and I in 128..255 length 5..8, both at a distance within 1..2048; every
\* distance is at least 1 and at most the window size of the ring buffer
C22_MatchInstructionRanges ==
    [][(IsDecodeStep /\ lz.instruction >= 16) =>
        /\ lz.instruction < 32 =>
              IF 16384 + (((lz.instruction \div 8) % 2) * 16384)
                   + CodedDistance(lz.src, AfterLength(lz.src, lz.sp, lz.instruction, 8))
                 = 16384
              THEN lz'.finished /\ Produced = <<>> /\ lz'.match = lz.match
              ELSE /\ ~lz'.finished
                   /\ lz'.match.copy = CodedLength(lz.src, lz.sp, lz.instruction, 8)
                   /\ lz'.match.distance
                        = 16384 + (((lz.instruction \div 8) % 2) * 16384)
                          + CodedDistance(lz.src,
                                          AfterLength(lz.src, lz.sp, lz.instruction, 8))
                   /\ lz'.match.distance <= 49152
        /\ (lz.instruction >= 32 /\ lz.instruction < 64) =>
              /\ lz'.match.copy = CodedLength(lz.src, lz.sp, lz.instruction, 32)
              /\ lz'.match.distance
                   = CodedDistance(lz.src, AfterLength(lz.src, lz.sp, lz.instruction, 32)) + 1
              /\ lz'.match.distance \in 1..16384
        /\ (lz.instruction >= 64 /\ lz.instruction < 128) =>
              /\ lz'.match.copy \in {3, 4}
              /\ lz'.match.distance \in 1..2048
        /\ lz.instruction >= 128 =>
              /\ lz'.match.copy \in 5..8
              /\ lz'.match.distance \in 1..2048
        /\ ~lz'.finished =>
              /\ lz'.match.distance >= 1
              /\ lz'.match.distance <= MAX_WINDOW_SIZE
              /\ Len(Produced) = lz'.match.copy + lz'.match.state
    ]_vars

C22_Witness ==
    /\ lzSrc = DeStream(LARGE_COPY, 31, <<255, 255>>, MaxFill)
    /\ lzN = 30
    /\ lz.match = [distance |-> 49151, copy |-> 9, state |-> 3]
    /\ Len(lz.out) = 4 + 9 + 3

\* C23: after every decoded instruction, also one whose output is cut short
\* by the remaining output count, the state is the number of trailing
\* literals of the instruction: its 2-bit count (0..3) after a match, 4 after
\* a literal run; the state is always one of 0..4
C23_StateIsTrailingLiteralCount ==
    [][(IsDecodeStep /\ ~lz'.finished) =>
        /\ lz'.state \in 0..4
        /\ lz'.state = (IF lz.instruction <= 15 /\ lz.state = ZERO_COPY
                        THEN 4
                        ELSE lz'.match.state)
    ]_vars

\* a step that decodes a match whose distance is within the bytes produced
IsMatchStep ==
    /\ IsDecodeStep /\ ~lz'.finished
    /\ ~(lz.instruction <= 15 /\ lz.state = ZERO_COPY)
    /\ lz'.match.distance <= Len(lz.ring)

\* C24: a match of length L at a distance D of at most the bytes produced is
\* copied byte by byte: byte k of the copy equals the byte D positions before
\* it, for every k in 0..L-1, also when D < L (each copied byte is in the
\* window before the next one is read); the bytes copied are the bytes put
\* in the output
C24_OverlappingCopyIsByteByByte ==
    [][IsMatchStep =>
        /\ Len(lz'.ring) >= Len(lz.ring) + lz'.match.copy
        /\ \A k \in 0..(lz'.match.copy - 1) :
              /\ lz'.ring[Len(lz.ring) + k + 1]
                   = lz'.ring[Len(lz.ring) + k + 1 - lz'.match.distance]
              /\ Produced[k + 1] = lz'.ring[Len(lz.ring) + k + 1]
    ]_vars

C24_Witness ==
    /\ lzSrc = DeStream(LARGE_COPY, 224, <<0, 0>>, MaxFill)
    /\ lzN = 30
    /\ lz.match = [distance |-> 1, copy |-> 8, state |-> 0]
    /\ lz.out = <<65, 66, 67, 68, 68, 68, 68, 68, 68, 68, 68, 68>>

\* decompress(n) on a fresh LzoDecompressor over the stream
OneShot(src, n) == decompress(DecodeFirstByte(NewDecompressor(src)), n)

\* n is at most the decoded length of the stream: the fresh decompressor
\* produces n bytes
WithinDecodedLength(src, n) ==
    OneShot(src, n).err = "none" /\ Len(OneShot(src, n).out) = n

\* C26: decompress(n1) followed by decompress(n2) on one LzoDecompressor
\* returns byte strings whose concatenation is what decompress(n1 + n2)
\* returns on a fresh decompressor over the same stream, for every n1 + n2 of
\* at most the decoded length of the stream and wherever the boundary falls
C26_ChunkedEqualsOneShot ==
    (chPc \in {"second", "raised"} /\ WithinDecodedLength(chSrc, chN1 + chN2)) =>
        /\ chPc = "second"
        /\ chOne \o chTwo = Result(OneShot(chSrc, chN1 + chN2).out, chN1 + chN2)

\* the call that was made has returned or raised
ParseIsOver ==
    \/ snPc \in {"returned", "raised"}
    \/ lzPc \in {"returned", "raised"}

\* C25: a parse completes or fails: every iteration of the loop of
\* SNAReader.read strictly advances the cursor; every iteration of the loop of
\* decompress puts at least one byte in the output, raises, or meets the
\* end-of-stream marker, and never moves the source cursor back or past the
\* end (which bounds the extension loop); so SNAReader.read and decompress
\* eventually return or raise
C25_ParseTerminates ==
    /\ [][(snPc = "loop" /\ snPc' \in {"loop", "break"}) => snPos' > snPos]_vars
    /\ [][(lzPc = "loop" /\ LoopCondition(lz, lzN)) =>
            /\ \/ Len(lz'.out) > Len(lz.out)
               \/ lzPc' = "raised"
               \/ lz'.finished
            /\ lz'.sp >= lz.sp /\ lz'.sp <= Len(lz.src)]_vars
    /\ <>ParseIsOver

C25_Witness ==
    /\ snPc = "returned"
    /\ Len(snBlocks) >= 2
    /\ snBlocks[1].size > 0
    /\ snPos = Len(snRaw)

\* C27: a call of goto_pointer that returns False leaves the current block,
\* the data buffer, base_address and the cursor as they were
C27_FailedGotoPointerChangesNothing ==
    [][(rdLast'.op = "goto_pointer" /\ ~rdLast'.ok) =>
        UNCHANGED <<rdCur, rdData, rdBase, rdPosition>>]_vars

\* the data of the blocks, joined in list order
RECURSIVE JoinData(_)
JoinData(blocks) ==
    IF blocks = <<>> THEN <<>> ELSE Head(blocks).data \o JoinData(Tail(blocks))

\* C28: when SNAReader.read has returned, sna.data is the data of all blocks
\* joined in file order; sna.data[b.data_position : b.data_position +
\* len(b.data)] is b.data for every block b; data_position does not decrease
\* along sna.blocks; and the data_position of the terminator is len(sna.data)
C28_CombinedDataLayout ==
    snPc = "returned" =>
        /\ snParts = JoinData(snBlocks)
        /\ \A i \in 1..Len(snBlocks) :
              /\ PySlice(snParts, snBlocks[i].data_position,
                         snBlocks[i].data_position + Len(snBlocks[i].data))
                   = snBlocks[i].data
              /\ i > 1 => snBlocks[i - 1].data_position <= snBlocks[i].data_position
              /\ is_terminator(snBlocks[i]) => snBlocks[i].data_position = Len(snParts)

C28_Witness ==
    /\ snPc = "returned"
    /\ Len(snBlocks) = 3
    /\ snBlocks[1].data = <<1>> /\ snBlocks[1].data_position = 0
    /\ snBlocks[2].data = <<65, 66>> /\ snBlocks[2].data_position = 1
    /\ is_terminator(snBlocks[3]) /\ snBlocks[3].data_position = 3
    /\ snParts = <<1, 65, 66>>

\* the byte at stream position p decoded from the position and the seed
\* alone: the mask read from the first four bytes, advanced once for each
\* byte between the mask and p
DecodedAt(raw, p) ==
    decode_byte(MaskAfterBytes([mask |-> MaskOf(SubSeq(raw, 1, 4)), initialized |-> TRUE],
                               p - 4),
                raw[p + 1])

\* C29: with the cipher enabled, the value that read returns for the byte at
\* a stream position depends on that position and the seed only, whatever
\* reads and seeks came before; so reading a range, seeking back and reading
\* the range again returns the same bytes
C29_DecryptionIsPositionDetermined ==
    [][(ciLast'.op = "read" /\ ciReader.encrypted) =>
        \A k \in 1..Len(ciReader'.data) :
            ciReader'.data[k] = DecodedAt(ciReader.raw, ciReader.pos + k - 1)]_vars

\* C30: set_block(module, block_id) succeeds exactly when
\* SNAFile.get_block(module, block_id) returns a block, and then the reader's
\* current block is that block, also in containers where a key is repeated
\* or belongs to the terminator only; a call that returns False leaves the
\* block, the data, base_address and the position unchanged; the current
\* block is never a terminator
C30_SetBlockAgreesWithGetBlock ==
    [][\A module \in {0}, block_id \in LkIds :
        RdSetBlock(module, block_id) =>
            /\ rdLast'.ok <=> (get_block(rdSna, module, block_id) # 0)
            /\ rdLast'.ok => rdCur' = get_block(rdSna, module, block_id)
            /\ ~rdLast'.ok => UNCHANGED <<rdCur, rdData, rdBase, rdPosition>>
            /\ rdCur' # 0 => ~is_terminator(rdSna[rdCur'])]_vars
====
